---- MODULE Spec2Model ----
(***************************************************************************)
(* Retrieval/answer core of final_module_cld.RAGPipeline: the three dense  *)
(* index searches, the per-index fusion, the rerank selection, the         *)
(* two-stage case expansion, the priority sort, the context hierarchy and  *)
(* generate_answer.  The vector stores, the reranker, the normalization    *)
(* LLM and the generation LLM are collaborators: each call of one is a     *)
(* step whose outcome (a response or an exception) is chosen freely.       *)
(***************************************************************************)
EXTENDS Integers, Sequences, FiniteSets, TLC

\* ------------------------------------------------------------------ bounds
\* largest k_law / k_rule / k_case a configuration is drawn with
MaxK == 1
\* most candidates the case-law search returns (case_candidate_k of the model)
MaxCaseHits == 2
\* largest rerank_max_documents a configuration is drawn with
MaxRerankDocs == 3

\* --------------------------------------------------------- absent values
\* metadata.get(key) on a missing key: None
NoStr == "<none>"
NoInt == 0 - 1

\* `if v:` on a metadata value
TruthyInt(v) == v # NoInt /\ v # 0
TruthyStr(s) == s # NoStr /\ s # ""

\* ------------------------------------------------------------- priorities
\* A raw metadata priority: an int, a float (v in tenths), a numeric string
\* (v its value), or something int() rejects (None, "abc").  PAbsent is the
\* missing key.
PInt(n) == [t |-> "int", v |-> n]
PFloat(tenths) == [t |-> "float", v |-> tenths]
PNumStr(n) == [t |-> "numstr", v |-> n]
PBad == [t |-> "bad", v |-> 0]
PAbsent == [t |-> "absent", v |-> 0]

DefaultPriority == 99

\* int(x) of a float truncates toward zero
TruncTenths(v) == IF v >= 0 THEN v \div 10 ELSE 0 - ((0 - v) \div 10)

\* _safe_int: int(x), the default when int() raises
SafeInt(x, default) ==
    CASE x.t = "int" -> x.v
      [] x.t = "float" -> TruncTenths(x.v)
      [] x.t = "numstr" -> x.v
      [] OTHER -> default

\* md.get("priority", 99)
GetPriority(d) == IF d.priority = PAbsent THEN PInt(DefaultPriority) ELSE d.priority

\* the sort key of step 7 and the tier key of format_context_with_hierarchy
PriorityOf(d) == SafeInt(GetPriority(d), DefaultPriority)

\* -------------------------------------------------------------- documents
\* A Document: page_content (a sequence of lines) and its metadata keys.
Doc(content, chunk_id, id, case_no, title, case_name, priority, src_title) ==
    [page_content |-> content, chunk_id |-> chunk_id, id |-> id,
     case_no |-> case_no, title |-> title, case_name |-> case_name,
     priority |-> priority, src_title |-> src_title,
     source_index |-> NoStr, dense_rank |-> NoInt, hybrid_rank |-> NoInt,
     expanded |-> FALSE]

\* what the statute index holds
LawPool ==
    { Doc(<<"law-1">>, 1, NoInt, NoStr, "Act s.3", NoStr, PInt(1), "Housing Lease Act"),
      Doc(<<"law-2">>, 2, NoInt, NoStr, "Act s.4", NoStr, PAbsent, NoStr) }

\* what the regulation index holds
RulePool ==
    { Doc(<<"rule-1">>, 1, NoInt, NoStr, "Decree s.2", NoStr, PInt(3), "Enforcement Decree"),
      Doc(<<"rule-2">>, NoInt, 5, NoStr, NoStr, NoStr, PBad, NoStr) }

\* what the case-law index holds (chunks of rulings)
CasePool ==
    { Doc(<<"case-A-1">>, 11, NoInt, "2020da1", "Ruling A", NoStr, PFloat(90), NoStr),
      Doc(<<"case-A-2">>, 12, NoInt, "2020da1", NoStr, "A v B", PInt(9), NoStr),
      Doc(<<"case-B-1">>, 13, NoInt, "2021da2", NoStr, NoStr, PInt(9), NoStr),
      Doc(<<"case-x">>, 14, NoInt, NoStr, "No number", NoStr, PAbsent, NoStr) }

\* sequences of at most n distinct members of S
SeqsNoRep(S, n) ==
    { s \in UNION { [1..m -> S] : m \in 0..n } :
        \A i, j \in DOMAIN s : i # j => s[i] # s[j] }

Min(a, b) == IF a <= b THEN a ELSE b

\* docs[:n] for n >= 0
Take(s, n) == SubSeq(s, 1, Min(n, Len(s)))

\* --------------------------------------------------------- deduplication
\* the dedup key: the first truthy key field, else the content hash
DocKey(d) ==
    IF TruthyInt(d.chunk_id) THEN [f |-> "chunk_id", v |-> d.chunk_id, c |-> <<>>]
    ELSE IF TruthyInt(d.id) THEN [f |-> "id", v |-> d.id, c |-> <<>>]
    ELSE [f |-> "content", v |-> 0, c |-> d.page_content]

RECURSIVE DedupeFrom(_, _, _)
DedupeFrom(docs, seen, out) ==
    IF docs = <<>> THEN out
    ELSE LET d == Head(docs) IN
         IF DocKey(d) \in seen THEN DedupeFrom(Tail(docs), seen, out)
         ELSE DedupeFrom(Tail(docs), seen \cup {DocKey(d)}, Append(out, d))

\* _dedupe_docs: keep the first document of every key
DedupeDocs(docs) == DedupeFrom(docs, {}, <<>>)

\* ------------------------------------------------------------ dense search
\* _search_with_dense_rank, the metadata it writes: __dense_rank
WithDenseRank(docs) == [i \in DOMAIN docs |-> [docs[i] EXCEPT !.dense_rank = i]]

\* _attach_source
AttachSource(docs, source) ==
    [i \in DOMAIN docs |-> [docs[i] EXCEPT !.source_index = source]]

\* ------------------------------------------------------------ score fusion
\* Scores are exact fractions n/d (d > 0) in place of floats; weights are
\* kept in tenths.
RECURSIVE Gcd(_, _)
Gcd(a, b) == IF b = 0 THEN a ELSE Gcd(b, a % b)
Abs(x) == IF x < 0 THEN 0 - x ELSE x

\* n/d in lowest terms
F(n, d) ==
    LET g == Gcd(Abs(n), d) IN [n |-> n \div g, d |-> d \div g]
FAdd(a, b) == F(a.n * b.d + b.n * a.d, a.d * b.d)
FMul(a, b) == F(a.n * b.n, a.d * b.d)
FSub(a, b) == F(a.n * b.d - b.n * a.d, a.d * b.d)
FGe(a, b) == a.n * b.d >= b.n * a.d
FEq(a, b) == a.n * b.d = b.n * a.d
FZero == F(0, 1)
FOne == F(1, 1)

\* RAGConfig defaults of the fusion settings
RrfK == 60
HybridDenseWeightTenths == 6
HybridSparseWeightTenths == 4
HybridAlphaTenths == 5

\* largest BM25 score a candidate is given
MaxBm25 == 1

\* the sparse side counted from rank 0 while the dense side counts from 1
ReciprocalRankFusionSkewed(dense_ranks, sparse_ranks, k, w_dense, w_sparse) ==
    [id \in (DOMAIN dense_ranks) \cup (DOMAIN sparse_ranks) |->
        FAdd(IF id \in DOMAIN dense_ranks
                THEN F(w_dense, 10 * (k + dense_ranks[id])) ELSE FZero,
             IF id \in DOMAIN sparse_ranks
                THEN F(w_sparse, 10 * (k + sparse_ranks[id] - 1)) ELSE FZero)]

\* a document missing from one side given the rank after the last one there
ReciprocalRankFusionPenalty(dense_ranks, sparse_ranks, k, w_dense, w_sparse) ==
    LET all_docs == (DOMAIN dense_ranks) \cup (DOMAIN sparse_ranks)
        n == Cardinality(all_docs)
    IN [id \in all_docs |->
            FAdd(F(w_dense, 10 * (k + (IF id \in DOMAIN dense_ranks
                                          THEN dense_ranks[id] ELSE n + 1))),
                 F(w_sparse, 10 * (k + (IF id \in DOMAIN sparse_ranks
                                           THEN sparse_ranks[id] ELSE n + 1))))]

\* ScoreFusion.reciprocal_rank_fusion
ReciprocalRankFusion(dense_ranks, sparse_ranks, k, w_dense, w_sparse) ==
    [id \in (DOMAIN dense_ranks) \cup (DOMAIN sparse_ranks) |->
        FAdd(IF id \in DOMAIN dense_ranks
                THEN F(w_dense, 10 * (k + dense_ranks[id])) ELSE FZero,
             IF id \in DOMAIN sparse_ranks
                THEN F(w_sparse, 10 * (k + sparse_ranks[id])) ELSE FZero)]

FMinOf(scores) ==
    CHOOSE m \in {scores[x] : x \in DOMAIN scores} :
        \A y \in DOMAIN scores : FGe(scores[y], m)
FMaxOf(scores) ==
    CHOOSE m \in {scores[x] : x \in DOMAIN scores} :
        \A y \in DOMAIN scores : FGe(m, scores[y])

\* ScoreFusion._normalize: min-max, 1.0 everywhere when all values are equal
Normalize(scores) ==
    IF DOMAIN scores = {} THEN scores
    ELSE LET lo == FMinOf(scores)
             hi == FMaxOf(scores)
         IN IF FEq(lo, hi) THEN [x \in DOMAIN scores |-> FOne]
            ELSE LET span == FSub(hi, lo) IN
                 [x \in DOMAIN scores |->
                    LET num == FSub(scores[x], lo) IN F(num.n * span.d, num.d * span.n)]

\* ScoreFusion.weighted_sum (normalize=True)
WeightedSum(dense_scores, sparse_scores, alpha) ==
    LET dn == Normalize(dense_scores)
        sn == Normalize(sparse_scores)
    IN [id \in (DOMAIN dn) \cup (DOMAIN sn) |->
            FAdd(FMul(F(alpha, 10), IF id \in DOMAIN dn THEN dn[id] ELSE FZero),
                 FMul(F(10 - alpha, 10), IF id \in DOMAIN sn THEN sn[id] ELSE FZero))]

\* the single-document case returning the dense weight alone
RankSumDenseOnly(dense_ranks, sparse_ranks, w_dense, w_sparse) ==
    LET all_docs == (DOMAIN dense_ranks) \cup (DOMAIN sparse_ranks)
        n == Cardinality(all_docs)
        to_unit(r) == FSub(FOne, F(r - 1, n - 1))
    IN IF n <= 1 THEN [id \in all_docs |-> F(w_dense, 10)]
       ELSE [id \in all_docs |->
                LET d_rank == IF id \in DOMAIN dense_ranks THEN dense_ranks[id] ELSE n
                    s_rank == IF id \in DOMAIN sparse_ranks THEN sparse_ranks[id] ELSE n
                IN FAdd(FMul(F(w_dense, 10), to_unit(d_rank)),
                        FMul(F(w_sparse, 10), to_unit(s_rank)))]

\* ScoreFusion.rank_sum
RankSum(dense_ranks, sparse_ranks, w_dense, w_sparse) ==
    LET all_docs == (DOMAIN dense_ranks) \cup (DOMAIN sparse_ranks)
        n == Cardinality(all_docs)
        to_unit(r) == FSub(FOne, F(r - 1, n - 1))
    IN IF n <= 1 THEN [id \in all_docs |-> F(w_dense + w_sparse, 10)]
       ELSE [id \in all_docs |->
                LET d_rank == IF id \in DOMAIN dense_ranks THEN dense_ranks[id] ELSE n
                    s_rank == IF id \in DOMAIN sparse_ranks THEN sparse_ranks[id] ELSE n
                IN FAdd(FMul(F(w_dense, 10), to_unit(d_rank)),
                        FMul(F(w_sparse, 10), to_unit(s_rank)))]

\* the BM25 ranks of _hybrid_fusion: a stable sort of the scores, descending
SparseRankOf(bm25, i) ==
    1 + Cardinality({j \in DOMAIN bm25 : bm25[j] > bm25[i]})
      + Cardinality({j \in DOMAIN bm25 : j < i /\ bm25[j] = bm25[i]})

\* the fused score of every deduplicated candidate, by position
FusedScores(docs, bm25, method) ==
    LET ids == {DocKey(docs[i]) : i \in DOMAIN docs}
        pos(id) == CHOOSE i \in DOMAIN docs : DocKey(docs[i]) = id
        dense_ranks == [id \in ids |-> docs[pos(id)].dense_rank]
        dense_scores == [id \in ids |-> F(1, dense_ranks[id])]
        bm25_scores == [id \in ids |-> F(bm25[pos(id)], 1)]
        sparse_ranks == [id \in ids |-> SparseRankOf(bm25, pos(id))]
        fused == CASE method = "rrf" ->
                        ReciprocalRankFusion(dense_ranks, sparse_ranks, RrfK,
                            HybridDenseWeightTenths, HybridSparseWeightTenths)
                   [] method = "weighted" ->
                        WeightedSum(dense_scores, bm25_scores, HybridAlphaTenths)
                   [] OTHER ->
                        RankSum(dense_ranks, sparse_ranks,
                            HybridDenseWeightTenths, HybridSparseWeightTenths)
    IN [i \in DOMAIN docs |-> fused[DocKey(docs[i])]]

Perms(n) == { p \in [1..n -> 1..n] : \A i, j \in 1..n : i # j => p[i] # p[j] }

\* the ids sorted by fused score without reverse=True: ascending
FusedOrdersAscending(fused) ==
    { p \in Perms(Len(fused)) :
        \A i, j \in 1..Len(fused) : i < j => FGe(fused[p[j]], fused[p[i]]) }

\* sorted(fused.keys(), key=fused, reverse=True): by fused score descending.
\* fused is filled by iterating a set of strings, so equal scores come out in
\* the set's iteration order: any order of the tied ids.
FusedOrders(fused) ==
    { p \in Perms(Len(fused)) :
        \A i, j \in 1..Len(fused) : i < j => FGe(fused[p[i]], fused[p[j]]) }

\* the reordering that loses the lowest-scored id (its doc_id not in doc_map)
ReorderedLosingLast(docs, p) ==
    [i \in 1..(Len(docs) - 1) |-> [docs[p[i]] EXCEPT !.hybrid_rank = i]]

\* the reordered list, __hybrid_rank written
Reordered(docs, p) == [i \in DOMAIN docs |-> [docs[p[i]] EXCEPT !.hybrid_rank = i]]

\* _hybrid_fusion: the lists it can return for the candidates of one index
HybridFusion(docs, enable_hybrid, method) ==
    IF ~enable_hybrid \/ docs = <<>> THEN {docs}
    ELSE LET dd == DedupeDocs(docs) IN
         IF Len(dd) <= 1 THEN {dd}
         ELSE { Reordered(dd, p) :
                  p \in UNION { FusedOrders(FusedScores(dd, bm25, method)) :
                                  bm25 \in [DOMAIN dd -> 0..MaxBm25] } }

\* ---------------------------------------------------------- rerank stage
\* the statutes and regulations never truncated to the budget
CapForRerankBaseUncut(law, rule, case, rerank_max_documents) ==
    LET base == DedupeDocs(law) \o DedupeDocs(rule)
    IN base \o Take(DedupeDocs(case), rerank_max_documents - Len(base))

\* _cap_for_rerank
CapForRerank(law, rule, case, rerank_max_documents) ==
    LET base == DedupeDocs(law) \o DedupeDocs(rule)
    IN IF Len(base) >= rerank_max_documents THEN Take(base, rerank_max_documents)
       ELSE base \o Take(DedupeDocs(case), rerank_max_documents - Len(base))

\* rerank_threshold; relevance scores are counted in units of the threshold
RerankThreshold == 1

\* relevance scores: below the default threshold, equal to it, above it
Scores == 0..(RerankThreshold + 1)

\* a rerank response for n documents: every index 0..n-1 once (top_n = n),
\* best first, each with a relevance score
Rankings(n) ==
    { r \in [1..n -> [i : 0..(n - 1), s : Scores]] :
        /\ \A a, b \in 1..n : a # b => r[a].i # r[b].i
        /\ \A a, b \in 1..n : a < b => r[a].s >= r[b].s }

\* no ranking: rerank disabled, no client, the call raised
NoRanking == <<[i |-> NoInt, s |-> NoInt]>>

\* the threshold filter without its fallback
FilteredRankingNoFallback(ranked, threshold, k_law, k_rule, k_case) ==
    SelectSeq(ranked, LAMBDA r : r.s >= threshold)

\* the (index, score) pairs kept by the threshold, the fallback when none is
FilteredRanking(ranked, threshold, k_law, k_rule, k_case) ==
    LET filtered == SelectSeq(ranked, LAMBDA r : r.s >= threshold)
    IN IF filtered = <<>>
          THEN Take(ranked, Min(k_law + k_rule + k_case, Len(ranked)))
          ELSE filtered

\* a failed rerank leaving nothing selected
SelectDocsLostOnFailure(combined, ranked, threshold, k_law, k_rule, k_case) ==
    IF ranked # NoRanking /\ ranked # <<>>
       THEN LET filtered == FilteredRanking(ranked, threshold, k_law, k_rule, k_case)
            IN [x \in DOMAIN filtered |-> combined[filtered[x].i + 1]]
       ELSE <<>>

\* step 4 of triple_hybrid_retrieval: selected_docs before deduplication
SelectDocs(combined, ranked, threshold, k_law, k_rule, k_case) ==
    IF ranked # NoRanking /\ ranked # <<>>
       THEN LET filtered == FilteredRanking(ranked, threshold, k_law, k_rule, k_case)
            IN [x \in DOMAIN filtered |-> combined[filtered[x].i + 1]]
       ELSE combined

FromSource(docs, source) == SelectSeq(docs, LAMBDA d : d.source_index = source)

\* ---------------------------------------------------------- case expansion
\* top_n = cfg.case_expand_top_n or cfg.k_case
TopN(case_expand_top_n, k_case) ==
    IF TruthyInt(case_expand_top_n) THEN case_expand_top_n ELSE k_case

RECURSIVE ChooseFrom(_, _, _, _)
ChooseFrom(case_ranked, seen_case_no, chosen_cases, top_n) ==
    IF case_ranked = <<>> THEN chosen_cases
    ELSE LET d == Head(case_ranked) IN
         IF ~TruthyStr(d.case_no) \/ d.case_no \in seen_case_no
            THEN ChooseFrom(Tail(case_ranked), seen_case_no, chosen_cases, top_n)
         ELSE LET chosen == Append(chosen_cases, d) IN
              IF Len(chosen) >= top_n THEN chosen
              ELSE ChooseFrom(Tail(case_ranked), seen_case_no \cup {d.case_no},
                              chosen, top_n)

\* the selection loop of the case expansion
ChooseCases(case_ranked, top_n) == ChooseFrom(case_ranked, {}, <<>>, top_n)

\* a chunk of a ruling, as the case-law index returns it for a case number
Chunk(case_no, chunk_id, lines) ==
    Doc(lines, chunk_id, NoInt, case_no, NoStr, NoStr, PInt(9), NoStr)

\* str(chunk_id) compared as text: "10" < "2"; the missing key reads ""
StrKey(chunk_id) ==
    IF chunk_id = NoInt THEN <<>>
    ELSE IF chunk_id < 10 THEN <<chunk_id>>
    ELSE <<chunk_id \div 10, chunk_id % 10>>

StrLess(a, b) ==
    LET x == StrKey(a)
        y == StrKey(b)
    IN \/ x = <<>> /\ y # <<>>
       \/ x # <<>> /\ y # <<>> /\ x[1] < y[1]
       \/ x # <<>> /\ y # <<>> /\ x[1] = y[1] /\ Len(x) < Len(y)
       \/ Len(x) = 2 /\ Len(y) = 2 /\ x[1] = y[1] /\ x[2] < y[2]

RECURSIVE SortByChunkId(_)
\* sorted(results, key=str(chunk_id)): stable insertion
SortByChunkId(docs) ==
    IF docs = <<>> THEN <<>>
    ELSE LET rest == SortByChunkId(SubSeq(docs, 1, Len(docs) - 1))
             d == docs[Len(docs)]
             before == SelectSeq(rest, LAMBDA x : ~StrLess(d.chunk_id, x.chunk_id))
             after == SelectSeq(rest, LAMBDA x : StrLess(d.chunk_id, x.chunk_id))
         IN before \o <<d>> \o after

RECURSIVE JoinLines(_)
\* "\n".join(page_content ...)
JoinLines(docs) ==
    IF docs = <<>> THEN <<>> ELSE Head(docs).page_content \o JoinLines(Tail(docs))

RECURSIVE LStrip(_)
LStrip(lines) ==
    IF lines # <<>> /\ Head(lines) = "" THEN LStrip(Tail(lines)) ELSE lines

RECURSIVE RStrip(_)
RStrip(lines) ==
    IF lines # <<>> /\ lines[Len(lines)] = ""
       THEN RStrip(SubSeq(lines, 1, Len(lines) - 1)) ELSE lines

\* str.strip(): blank lines at either end go
Strip(lines) == RStrip(LStrip(lines))

\* get_full_case_context, given what the case-law index returned
FullCaseContext(results) == Strip(JoinLines(DedupeDocs(SortByChunkId(results))))

\* what the case-law index can return for a case number
CaseChunkResults(case_no) ==
    { <<>>,
      <<Chunk(case_no, 0, <<"">>)>>,
      <<Chunk(case_no, 2, <<"facts">>), Chunk(case_no, 10, <<"holding">>),
        Chunk(case_no, 2, <<"facts (again)">>), Chunk(case_no, 0, <<"">>)>> }

\* title = md.title or md.case_name or str(case_no)
CaseTitle(d) ==
    IF TruthyStr(d.title) THEN d.title
    ELSE IF TruthyStr(d.case_name) THEN d.case_name
    ELSE d.case_no

FullCasePrefix == "[full case text]"

\* the replacement built whether or not any text came back
ExpandedDocUnchecked(d, full_text) ==
    [d EXCEPT !.page_content = <<FullCasePrefix, CaseTitle(d)>> \o full_text,
              !.expanded = TRUE]

\* one turn of the expansion loop: the document appended to expanded_cases
ExpandedDoc(d, full_text) ==
    IF full_text = <<>> THEN d
    ELSE [d EXCEPT !.page_content = <<FullCasePrefix, CaseTitle(d)>> \o full_text,
                   !.expanded = TRUE]

\* ------------------------------------------------------------ priority sort
\* the merged list returned as it is, the sort left out
SortByPriorityMissing(docs) == docs

RECURSIVE SortByPriority(_)
\* sorted(final_docs, key=priority): stable
SortByPriority(docs) ==
    IF docs = <<>> THEN <<>>
    ELSE LET rest == SortByPriority(SubSeq(docs, 1, Len(docs) - 1))
             d == docs[Len(docs)]
             before == SelectSeq(rest, LAMBDA x : PriorityOf(x) <= PriorityOf(d))
             after == SelectSeq(rest, LAMBDA x : PriorityOf(x) > PriorityOf(d))
         IN before \o <<d>> \o after

\* -------------------------------------------------------- context hierarchy
\* src = md.get("src_title", md.get("__source_index", <the word for material>))
SourceLabel(d) ==
    IF d.src_title # NoStr THEN d.src_title
    ELSE IF d.source_index # NoStr THEN d.source_index
    ELSE "material"

\* f"[{src}] {title}\n{content}".strip()
Entry(d) ==
    [src |-> SourceLabel(d),
     title |-> IF d.title = NoStr THEN "" ELSE d.title,
     body |-> RStrip(d.page_content)]

Tier1 == {1, 2, 4, 5}
Tier2 == {3, 6, 7, 8, 11}

\* priority 9 filed with the regulations
TierOfNineAsRule(p) == IF p \in Tier1 THEN 1 ELSE IF p \in Tier2 \cup {9} THEN 2 ELSE 3

\* the tier format_context_with_hierarchy files a priority under
TierOf(p) == IF p \in Tier1 THEN 1 ELSE IF p \in Tier2 THEN 2 ELSE 3

NoSections == [i \in 1..3 |-> <<>>]

RECURSIVE FillSectionsPrepending(_, _)
\* the loop inserting each entry at the head of its section
FillSectionsPrepending(docs, sections) ==
    IF docs = <<>> THEN sections
    ELSE LET doc == Head(docs)
             t == IF PriorityOf(doc) \in Tier1 THEN 1
                  ELSE IF PriorityOf(doc) \in Tier2 THEN 2 ELSE 3
         IN FillSectionsPrepending(Tail(docs),
                [sections EXCEPT ![t] = <<Entry(doc)>> \o sections[t]])

RECURSIVE FillSections(_, _)
\* the loop of format_context_with_hierarchy: section_1_law, section_2_rule,
\* section_3_case after the documents were appended in order
FillSections(docs, sections) ==
    IF docs = <<>> THEN sections
    ELSE LET doc == Head(docs)
             t == TierOf(PriorityOf(doc))
         IN FillSections(Tail(docs),
                [sections EXCEPT ![t] = Append(sections[t], Entry(doc))])

SectionHeader(t) ==
    CASE t = 1 -> "## [SECTION 1]" [] t = 2 -> "## [SECTION 2]" [] OTHER -> "## [SECTION 3]"

\* every section written with its header, empty or not
FormatContextAllHeaders(docs) ==
    LET sections == FillSections(docs, NoSections)
    IN [t \in 1..3 |-> [header |-> SectionHeader(t), entries |-> sections[t]]]

\* format_context_with_hierarchy: the non-empty sections, in order
FormatContextWithHierarchy(docs) ==
    LET sections == FillSections(docs, NoSections)
        part(t) == IF sections[t] = <<>> THEN <<>>
                   ELSE <<[header |-> SectionHeader(t), entries |-> sections[t]]>>
    IN part(1) \o part(2) \o part(3)

\* ---------------------------------------------------------- configuration
Methods == {"rrf", "weighted", "rank_sum"}

\* search_multiplier
SearchMultiplier == 2

Config(k_law, k_rule, k_case, hybrid, method, rerank, client, top_n, max_docs) ==
    [k_law |-> k_law, k_rule |-> k_rule, k_case |-> k_case,
     search_multiplier |-> SearchMultiplier,
     enable_hybrid |-> hybrid, hybrid_method |-> method,
     enable_rerank |-> rerank, cohere_client |-> client,
     rerank_threshold |-> RerankThreshold, rerank_max_documents |-> max_docs,
     case_candidate_k |-> MaxCaseHits, case_expand_top_n |-> top_n]

\* hybrid_method: str = "rrf"
DefaultMethod == "rrf"

\* the configurations a pipeline is constructed with: fusion with the default
\* method or off; reranking off, on without a client (no key), on with one
Configs ==
    { Config(kl, kr, kc, h, DefaultMethod, r, c, t, MaxRerankDocs) :
        kl \in 0..MaxK, kr \in 0..MaxK, kc \in 0..MaxK,
        h \in BOOLEAN, r \in BOOLEAN, c \in BOOLEAN,
        t \in {NoInt, MaxK + 1} }
    \ { cf \in [k_law : 0..MaxK, k_rule : 0..MaxK, k_case : 0..MaxK,
                search_multiplier : {SearchMultiplier},
                enable_hybrid : BOOLEAN, hybrid_method : {DefaultMethod},
                enable_rerank : {FALSE}, cohere_client : {FALSE},
                rerank_threshold : {RerankThreshold},
                rerank_max_documents : {MaxRerankDocs},
                case_candidate_k : {MaxCaseHits},
                case_expand_top_n : {NoInt, MaxK + 1}] : TRUE }

\* ------------------------------------------------------------------ state
VARIABLES
    pc,                 \* where the running call stands
    cfg,                \* self.config
    corpus,             \* what the three indexes hold
    entry,              \* the method the caller invoked
    skip_normalization, \* generate_answer's keyword argument
    query,              \* normalized_query / the query of the retrieval
    docs_law, docs_rule, docs_case_chunks,
    combined,           \* the capped rerank input
    ranked,             \* what _rerank returned
    filtered,           \* the (index, score) pairs kept of ranked
    selected_docs,      \* after step 5 (deduplicated)
    chosen_cases,       \* the cases picked for expansion
    fetched,            \* per chosen case: how get_full_case_context's search went
    expanded_cases,
    final_docs,         \* what triple_hybrid_retrieval returns / format's argument
    context,            \* hierarchical_context
    dense_ranks,        \* fusion: doc id -> dense rank
    sparse_ranks,       \* fusion: doc id -> BM25 rank
    bm25_scores,        \* fusion: doc id -> BM25 score
    fused,              \* fusion: doc id -> fused score
    result,             \* how the call ended
    calls,              \* the collaborator calls made so far, in order
    cl2                 \* the locals of rag_module_cl2's triple_hybrid_retrieval

env == <<cfg, corpus>>
call == <<entry, skip_normalization>>
searched == <<docs_law, docs_rule, docs_case_chunks>>
reranked == <<combined, ranked, filtered, selected_docs>>
cases == <<chosen_cases, fetched, expanded_cases>>
fusion == <<dense_ranks, sparse_ranks, bm25_scores, fused>>

vars == <<pc, env, call, query, searched, reranked, cases, final_docs, context,
          fusion, result, calls, cl2>>

UserInput == "the landlord will not return my deposit"
NormalizedQuery == "lessor; delayed return of the lease deposit"
NoMaterialAnswer == "sorry: no relevant statute or precedent was found"
ApologyAnswer == "sorry: an error occurred while generating the answer"
LlmAnswer == "<answer of the generation LLM>"

Pending == [kind |-> "pending", answer |-> ""]
Returned(answer) == [kind |-> "returned", answer |-> answer]
Raised == [kind |-> "raised", answer |-> ""]

\* a collaborator call made: which one, with what, and whether it raised
Call(op, arg, raised) == [op |-> op, arg |-> arg, raised |-> raised]

\* the corpus of the retrieval runs: the rulings' chunks that carry a number
FullCorpus ==
    [law |-> LawPool, rule |-> RulePool,
     case |-> { d \in CasePool : TruthyStr(d.case_no) }]

\* a corpus of one statute, one regulation and the chunks of two rulings
SmallCorpus ==
    [law |-> { d \in LawPool : d.page_content = <<"law-2">> },
     rule |-> { d \in RulePool : d.page_content = <<"rule-1">> },
     case |-> { d \in CasePool : d.chunk_id \in {12, 13} }]

\* rag_module_cl2.RAGPipeline.generate_answer not yet called
Cl2Fresh ==
    [docs_law |-> <<>>, docs_rule |-> <<>>, docs_case_initial |-> <<>>,
     visited |-> 0, docs_case_expanded |-> <<>>, combined_docs |-> <<>>,
     rerank_results |-> NoRanking, selected_docs |-> <<>>,
     sorted_docs |-> <<>>, context |-> <<>>, result |-> Pending, calls |-> <<>>]

Fresh ==
    /\ entry = ""
    /\ skip_normalization = FALSE
    /\ query = ""
    /\ docs_law = <<>> /\ docs_rule = <<>> /\ docs_case_chunks = <<>>
    /\ combined = <<>>
    /\ ranked = NoRanking
    /\ filtered = <<>>
    /\ selected_docs = <<>>
    /\ chosen_cases = <<>> /\ fetched = <<>> /\ expanded_cases = <<>>
    /\ final_docs = <<>>
    /\ context = <<>>
    /\ dense_ranks = <<>> /\ sparse_ranks = <<>> /\ bm25_scores = <<>> /\ fused = <<>>
    /\ result = Pending
    /\ cl2 = Cl2Fresh
    /\ calls = <<>>

\* a constructed pipeline, before generate_answer is called
Init ==
    /\ cfg \in Configs
    /\ corpus = SmallCorpus
    /\ pc = "idle"
    /\ Fresh

\* a constructed pipeline, before triple_hybrid_retrieval is called
InitRetrieval ==
    /\ cfg \in Configs
    /\ corpus = FullCorpus
    /\ pc = "idle"
    /\ Fresh

\* ---------------------------------------------------------------- actions
\* generate_answer(user_input, skip_normalization=...)
GenerateAnswer ==
    /\ pc = "idle"
    /\ entry' = "generate_answer"
    /\ \E skip \in BOOLEAN :
        /\ skip_normalization' = skip
        /\ query' = IF skip THEN UserInput ELSE query
        /\ pc' = IF skip THEN "search_law" ELSE "normalize"
    /\ UNCHANGED <<env, cl2, fusion, searched, reranked, cases, final_docs, context, result, calls>>

\* the except branch returning an empty query
NormalizeResultBlank(raised, user_query) == IF raised THEN "" ELSE NormalizedQuery

\* what normalize_query returns: the chain's answer, the user's query when
\* the chain raises
NormalizeResult(raised, user_query) == IF raised THEN user_query ELSE NormalizedQuery

\* normalize_query(user_input), the chain answering or raising
NormalizeQuery ==
    /\ pc = "normalize"
    /\ \E raised \in BOOLEAN :
          /\ query' = NormalizeResult(raised, UserInput)
          /\ calls' = Append(calls, Call("normalize", UserInput, raised))
    /\ pc' = "search_law"
    /\ UNCHANGED <<env, cl2, fusion, call, searched, reranked, cases, final_docs, context, result>>

\* triple_hybrid_retrieval(query), called directly
TripleHybridRetrieval ==
    /\ pc = "idle"
    /\ entry' = "triple_hybrid_retrieval"
    /\ UNCHANGED skip_normalization
    /\ query' = UserInput
    /\ pc' = "search_law"
    /\ UNCHANGED <<env, cl2, fusion, searched, reranked, cases, final_docs, context, result, calls>>

\* what an index returns for a search of k: at most k of its documents
SearchResults(pool, k) == SeqsNoRep(pool, Min(k, Cardinality(pool)))

\* _search_with_dense_rank + _attach_source when a search answers (the scored
\* search, or the plain search after the scored one raised)
Found(docs, source) == AttachSource(WithDenseRank(docs), source)

\* the scored search and the plain search of the except branch both raise:
\* the exception leaves _search_with_dense_rank and every caller above it
SearchRaises(source) ==
    /\ pc' = "raised"
    /\ result' = Raised
    /\ calls' = Append(calls, Call("search", source, TRUE))
    /\ UNCHANGED searched

SearchLaw ==
    /\ pc = "search_law"
    /\ \/ \E docs \in SearchResults(corpus.law, cfg.k_law * cfg.search_multiplier) :
            /\ docs_law' = Found(docs, "law")
            /\ pc' = "search_rule"
            /\ calls' = Append(calls, Call("search", "law", FALSE))
            /\ UNCHANGED <<docs_rule, docs_case_chunks, result>>
       \/ SearchRaises("law")
    /\ UNCHANGED <<env, cl2, fusion, call, query, reranked, cases, final_docs, context>>

SearchRule ==
    /\ pc = "search_rule"
    /\ \/ \E docs \in SearchResults(corpus.rule, cfg.k_rule * cfg.search_multiplier) :
            /\ docs_rule' = Found(docs, "rule")
            /\ pc' = "search_case"
            /\ calls' = Append(calls, Call("search", "rule", FALSE))
            /\ UNCHANGED <<docs_law, docs_case_chunks, result>>
       \/ SearchRaises("rule")
    /\ UNCHANGED <<env, cl2, fusion, call, query, reranked, cases, final_docs, context>>

SearchCase ==
    /\ pc = "search_case"
    /\ \/ \E docs \in SearchResults(corpus.case, cfg.case_candidate_k) :
            /\ docs_case_chunks' = Found(docs, "case")
            /\ pc' = IF cfg.enable_hybrid THEN "fusion" ELSE "cap"
            /\ calls' = Append(calls, Call("search", "case", FALSE))
            /\ UNCHANGED <<docs_law, docs_rule, result>>
       \/ SearchRaises("case")
    /\ UNCHANGED <<env, cl2, fusion, call, query, reranked, cases, final_docs, context>>

\* step 2: _hybrid_fusion on each index's candidates
Fusion ==
    /\ pc = "fusion"
    /\ docs_law' \in HybridFusion(docs_law, cfg.enable_hybrid, cfg.hybrid_method)
    /\ docs_rule' \in HybridFusion(docs_rule, cfg.enable_hybrid, cfg.hybrid_method)
    /\ docs_case_chunks' \in
            HybridFusion(docs_case_chunks, cfg.enable_hybrid, cfg.hybrid_method)
    /\ pc' = "cap"
    /\ UNCHANGED <<env, cl2, fusion, call, query, reranked, cases, final_docs, context, result, calls>>

\* step 3: _cap_for_rerank; then _rerank calls the client, or has none to call
Cap ==
    /\ pc = "cap"
    /\ combined' = CapForRerank(docs_law, docs_rule, docs_case_chunks,
                                cfg.rerank_max_documents)
    /\ pc' = IF cfg.enable_rerank /\ cfg.cohere_client THEN "rerank" ELSE "select"
    /\ UNCHANGED <<env, cl2, fusion, call, query, searched, ranked, filtered, selected_docs,
                   cases, final_docs, context, result, calls>>

\* _rerank: the client's ranking, None when the client raises
Rerank ==
    /\ pc = "rerank"
    /\ \/ /\ ranked' \in Rankings(Len(combined))
          /\ calls' = Append(calls, Call("rerank", query, FALSE))
       \/ /\ ranked' = NoRanking
          /\ calls' = Append(calls, Call("rerank", query, TRUE))
    /\ pc' = "select"
    /\ UNCHANGED <<env, cl2, fusion, call, query, searched, combined, filtered, selected_docs,
                   cases, final_docs, context, result>>

\* final_law, final_rule, case_ranked of step 6
\* the statutes of the selection, the cut to k_law left out
FinalLawUncapped == FromSource(selected_docs, "law")
FinalLaw == Take(FromSource(selected_docs, "law"), cfg.k_law)
FinalRule == Take(FromSource(selected_docs, "rule"), cfg.k_rule)
CaseRanked == FromSource(selected_docs, "case")

\* steps 4-6 up to the first full-text fetch: threshold filter, dedupe, the
\* choice of the cases to expand
Select ==
    /\ pc = "select"
    /\ filtered' = IF ranked # NoRanking /\ ranked # <<>>
                      THEN FilteredRanking(ranked, cfg.rerank_threshold,
                                           cfg.k_law, cfg.k_rule, cfg.k_case)
                      ELSE filtered
    /\ selected_docs' = DedupeDocs(SelectDocs(combined, ranked, cfg.rerank_threshold,
                                              cfg.k_law, cfg.k_rule, cfg.k_case))
    /\ chosen_cases' = ChooseCases(FromSource(selected_docs', "case"),
                                   TopN(cfg.case_expand_top_n, cfg.k_case))
    /\ pc' = "expand"
    /\ UNCHANGED <<env, cl2, fusion, call, query, searched, combined, ranked, fetched,
                   expanded_cases, final_docs, context, result, calls>>

\* how the search inside get_full_case_context can go for a case number
FetchOutcomes(case_no) ==
    { [raised |-> FALSE, full_text |-> FullCaseContext(r)] :
        r \in CaseChunkResults(case_no) }
    \cup { [raised |-> TRUE, full_text |-> <<>>] }

\* one turn of the expansion loop: get_full_case_context for the next chosen
\* case ("" when the index raises), then the document kept for it
ExpandCase ==
    /\ pc = "expand"
    /\ Len(expanded_cases) < Len(chosen_cases)
    /\ LET d == chosen_cases[Len(expanded_cases) + 1] IN
        \E o \in FetchOutcomes(d.case_no) :
            /\ fetched' = Append(fetched, o)
            /\ expanded_cases' = Append(expanded_cases, ExpandedDoc(d, o.full_text))
            /\ calls' = Append(calls, Call("fetch", d.case_no, o.raised))
    /\ UNCHANGED <<pc, env, cl2, fusion, call, query, searched, reranked, chosen_cases,
                   final_docs, context, result>>

\* step 7: cap the cases, merge, priority sort; triple_hybrid_retrieval returns
FinishRetrieval ==
    /\ pc = "expand"
    /\ Len(expanded_cases) = Len(chosen_cases)
    /\ final_docs' = SortByPriority(FinalLaw \o FinalRule
                                        \o Take(expanded_cases, cfg.k_case))
    /\ pc' = IF entry = "triple_hybrid_retrieval" THEN "returned" ELSE "answer"
    /\ UNCHANGED <<env, cl2, fusion, call, query, searched, reranked, cases, context, result, calls>>

\* generate_answer going on to the context and the generation with no documents
BuildContextAlwaysFormats ==
    /\ pc = "answer"
    /\ context' = FormatContextWithHierarchy(final_docs)
    /\ pc' = "generate"
    /\ UNCHANGED <<env, cl2, fusion, call, query, searched, reranked, cases, final_docs, result, calls>>

\* generate_answer after the retrieval: the fixed answer for no documents,
\* else the context is formatted
BuildContext ==
    /\ pc = "answer"
    /\ IF final_docs = <<>>
          THEN /\ result' = Returned(NoMaterialAnswer)
               /\ pc' = "done"
               /\ UNCHANGED context
          ELSE /\ context' = FormatContextWithHierarchy(final_docs)
               /\ pc' = "generate"
               /\ UNCHANGED result
    /\ UNCHANGED <<env, cl2, fusion, call, query, searched, reranked, cases, final_docs, calls>>

\* the failure of the chain leaving generate_answer
GenerationResultEscapes(raised) == IF raised THEN Raised ELSE Returned(LlmAnswer)

\* how generate_answer ends after the chain: its answer, the apology when
\* the chain raises
GenerationResult(raised) ==
    IF raised THEN Returned(ApologyAnswer) ELSE Returned(LlmAnswer)

\* step 4 of generate_answer: the generation chain answering or raising
Generate ==
    /\ pc = "generate"
    /\ \E raised \in BOOLEAN :
          /\ result' = GenerationResult(raised)
          /\ calls' = Append(calls, Call("generate", query, raised))
    /\ pc' = "done"
    /\ UNCHANGED <<env, cl2, fusion, call, query, searched, reranked, cases, final_docs, context>>

Retrieval ==
    \/ SearchLaw \/ SearchRule \/ SearchCase
    \/ Fusion \/ Cap \/ Rerank \/ Select \/ ExpandCase \/ FinishRetrieval

Next == GenerateAnswer \/ NormalizeQuery \/ Retrieval \/ BuildContext \/ Generate

\* generate_answer on a constructed pipeline
Spec == Init /\ [][Next]_vars

NextRetrieval == TripleHybridRetrieval \/ Retrieval

\* triple_hybrid_retrieval on a constructed pipeline
SpecRetrieval == InitRetrieval /\ [][NextRetrieval]_vars

\* ------------------------------------------- the case expansion on its own
\* most case-law candidates handed to the expansion
MaxCandidates == 4
\* largest k_case / case_expand_top_n of an expansion run
MaxTopN == 2

\* ranked case-law candidates: chunks of three rulings, one without a number
ExpandPool ==
    CasePool \cup
    { Doc(<<"case-B-2">>, 15, NoInt, "2021da2", "Ruling B", NoStr, PInt(9), NoStr),
      Doc(<<"case-C-1">>, 16, NoInt, "2022da3", NoStr, NoStr, PInt(9), NoStr) }

ExpandConfigs ==
    { Config(0, 0, kc, FALSE, DefaultMethod, FALSE, FALSE, t, MaxCandidates) :
        kc \in 0..MaxTopN, t \in {NoInt} \cup 0..MaxTopN }

\* triple_hybrid_retrieval at step 4 with only case-law candidates retrieved,
\* reranking off
InitExpand ==
    /\ cfg \in ExpandConfigs
    /\ corpus = [law |-> {}, rule |-> {}, case |-> ExpandPool]
    /\ pc = "select"
    /\ entry = "triple_hybrid_retrieval"
    /\ skip_normalization = FALSE
    /\ query = UserInput
    /\ docs_law = <<>> /\ docs_rule = <<>>
    /\ docs_case_chunks \in { Found(c, "case") : c \in SeqsNoRep(ExpandPool, MaxCandidates) }
    /\ combined = docs_case_chunks
    /\ ranked = NoRanking
    /\ filtered = <<>>
    /\ selected_docs = <<>>
    /\ chosen_cases = <<>> /\ fetched = <<>> /\ expanded_cases = <<>>
    /\ final_docs = <<>>
    /\ context = <<>>
    /\ dense_ranks = <<>> /\ sparse_ranks = <<>> /\ bm25_scores = <<>> /\ fused = <<>>
    /\ result = Pending
    /\ cl2 = Cl2Fresh
    /\ calls = <<Call("search", "law", FALSE), Call("search", "rule", FALSE),
                 Call("search", "case", FALSE)>>

NextExpand == Select \/ ExpandCase \/ FinishRetrieval

SpecExpand == InitExpand /\ [][NextExpand]_vars

\* ---------------------------------------- the context hierarchy on its own
\* longest document list format_context_with_hierarchy is called with
MaxFormatDocs == 3

FDoc(name, priority, source) ==
    [Doc(<<name>>, NoInt, NoInt, NoStr, name, NoStr, priority, NoStr)
        EXCEPT !.source_index = source]

\* documents of every listed priority, of unlisted ones, and of priorities
\* that are no plain integer
FormatPool ==
    { FDoc("p1", PInt(1), "law"), FDoc("p2", PInt(2), "law"),
      FDoc("p3", PInt(3), "rule"), FDoc("p4", PInt(4), "law"),
      FDoc("p5", PInt(5), "law"), FDoc("p6", PInt(6), "rule"),
      FDoc("p7", PInt(7), "rule"), FDoc("p8", PInt(8), "rule"),
      FDoc("p9", PInt(9), "case"), FDoc("p10", PInt(10), "case"),
      FDoc("p11", PInt(11), "rule"), FDoc("p12", PInt(12), NoStr),
      FDoc("p0", PInt(0), NoStr), FDoc("p99", PInt(99), "case"),
      FDoc("absent", PAbsent, "case"), FDoc("bad", PBad, "law"),
      FDoc("3.7", PFloat(37), "rule"), FDoc("'5'", PNumStr(5), "law") }

\* format_context_with_hierarchy(docs), before it is called
InitFormat ==
    /\ cfg \in { c \in Configs : c.k_law = 0 /\ c.k_rule = 0 /\ c.k_case = 0
                                   /\ ~c.enable_hybrid /\ ~c.enable_rerank
                                   /\ c.case_expand_top_n = NoInt }
    /\ corpus = FullCorpus
    /\ pc = "format"
    /\ entry = "format_context_with_hierarchy"
    /\ skip_normalization = FALSE
    /\ query = ""
    /\ docs_law = <<>> /\ docs_rule = <<>> /\ docs_case_chunks = <<>>
    /\ combined = <<>>
    /\ ranked = NoRanking
    /\ filtered = <<>>
    /\ selected_docs = <<>>
    /\ chosen_cases = <<>> /\ fetched = <<>> /\ expanded_cases = <<>>
    /\ final_docs \in UNION { [1..n -> FormatPool] : n \in 0..MaxFormatDocs }
    /\ context = <<>>
    /\ dense_ranks = <<>> /\ sparse_ranks = <<>> /\ bm25_scores = <<>> /\ fused = <<>>
    /\ result = Pending
    /\ cl2 = Cl2Fresh
    /\ calls = <<>>

\* the method writing the source label it computed back into the metadata
DocsAfterFormatLabelled(docs) ==
    [i \in DOMAIN docs |-> [docs[i] EXCEPT !.src_title = SourceLabel(docs[i])]]

\* the documents after format_context_with_hierarchy ran over them: it reads
\* doc.metadata and doc.page_content and assigns to neither
DocsAfterFormat(docs) == docs

\* the static method, called with final_docs as its argument
FormatContext ==
    /\ pc = "format"
    /\ context' = FormatContextWithHierarchy(final_docs)
    /\ final_docs' = DocsAfterFormat(final_docs)
    /\ pc' = "formatted"
    /\ UNCHANGED <<env, cl2, fusion, call, query, searched, reranked, cases, result, calls>>

\* the method called a second time on the same list
FormatContextAgain ==
    /\ pc = "formatted"
    /\ context' = FormatContextWithHierarchy(final_docs)
    /\ final_docs' = DocsAfterFormat(final_docs)
    /\ pc' = "formatted_twice"
    /\ UNCHANGED <<env, cl2, fusion, call, query, searched, reranked, cases, result, calls>>

NextFormat == FormatContext \/ FormatContextAgain

SpecFormat == InitFormat /\ [][NextFormat]_vars

\* ------------------------------------------------ construction of RAGConfig
\* the settings RAGConfig(...) is called with; the float fields in tenths
TemperatureTenths == {0 - 1, 0, 1, 20, 21}
ThresholdTenths == {0 - 1, 0, 2, 10, 11}
AlphaTenths == {0 - 1, 0, 5, 10, 11}
Multipliers == {0 - 1, 0, 1, 2}
MethodNames == Methods \cup {"max"}

Settings ==
    [generation_temperature : TemperatureTenths,
     rerank_threshold : ThresholdTenths,
     hybrid_alpha : AlphaTenths,
     search_multiplier : Multipliers,
     hybrid_method : MethodNames]

\* RAGConfig.__post_init__ raises ValueError
PostInitRaises(c) ==
    \/ ~(0 <= c.generation_temperature /\ c.generation_temperature <= 20)
    \/ ~(0 <= c.rerank_threshold /\ c.rerank_threshold <= 10)
    \/ c.hybrid_method \notin Methods

\* RAGConfig(...) about to be constructed with some settings
InitConfig ==
    /\ cfg \in Settings
    /\ corpus = FullCorpus
    /\ pc = "config"
    /\ Fresh

\* the dataclass constructor: __init__ assigns the fields, __post_init__
\* validates them
ConstructConfig ==
    /\ pc = "config"
    /\ IF PostInitRaises(cfg)
          THEN pc' = "rejected" /\ result' = Raised
          ELSE pc' = "configured" /\ UNCHANGED result
    /\ UNCHANGED <<env, cl2, fusion, call, query, searched, reranked, cases, final_docs, context, calls>>

\* RAGPipeline(config) with the constructed record
BuildPipeline ==
    /\ pc = "configured"
    /\ pc' = "built"
    /\ UNCHANGED <<env, cl2, fusion, call, query, searched, reranked, cases, final_docs, context,
                   result, calls>>

NextConfig == ConstructConfig \/ BuildPipeline

SpecConfig == InitConfig /\ [][NextConfig]_vars

\* ------------------------------------------------ _hybrid_fusion on its own
\* longest candidate list _hybrid_fusion is called with
MaxFusionDocs == 3

\* the candidates of one index: two of them share a dedup key
FusionPool == LawPool \cup RulePool

\* fusion on with each method, and off
FusionConfigs ==
    { Config(MaxK, MaxK, MaxK, TRUE, m, FALSE, FALSE, NoInt, MaxRerankDocs) :
        m \in Methods }
    \cup { Config(MaxK, MaxK, MaxK, FALSE, DefaultMethod, FALSE, FALSE, NoInt,
                  MaxRerankDocs) }

\* the doc ids of a candidate list (_get_doc_id) and where an id stands in it
IdsOf(docs) == { DocKey(docs[i]) : i \in DOMAIN docs }
PosOf(docs, id) == CHOOSE i \in DOMAIN docs : DocKey(docs[i]) = id

\* _hybrid_fusion(query, docs) about to run on the dense results of an index
InitFusion ==
    /\ cfg \in FusionConfigs
    /\ corpus = [law |-> FusionPool, rule |-> {}, case |-> {}]
    /\ pc = "fuse"
    /\ entry = "_hybrid_fusion"
    /\ skip_normalization = FALSE
    /\ query = UserInput
    /\ docs_law \in { Found(c, "law") : c \in SeqsNoRep(FusionPool, MaxFusionDocs) }
    /\ docs_rule = <<>> /\ docs_case_chunks = <<>>
    /\ combined = <<>>
    /\ ranked = NoRanking
    /\ filtered = <<>>
    /\ selected_docs = <<>>
    /\ chosen_cases = <<>> /\ fetched = <<>> /\ expanded_cases = <<>>
    /\ final_docs = <<>>
    /\ context = <<>>
    /\ dense_ranks = <<>> /\ sparse_ranks = <<>> /\ bm25_scores = <<>> /\ fused = <<>>
    /\ result = Pending
    /\ cl2 = Cl2Fresh
    /\ calls = <<>>

\* _hybrid_fusion: the early returns, or the BM25 scoring, the fusion and the
\* reordering; final_docs is the list returned
HybridFusionCall ==
    /\ pc = "fuse"
    /\ LET dd == DedupeDocs(docs_law) IN
        IF ~cfg.enable_hybrid \/ docs_law = <<>> \/ Len(dd) <= 1
           THEN /\ final_docs' \in HybridFusion(docs_law, cfg.enable_hybrid,
                                                cfg.hybrid_method)
                /\ UNCHANGED fusion
           ELSE \E bm25 \in [DOMAIN dd -> 0..MaxBm25] :
                  LET scores == FusedScores(dd, bm25, cfg.hybrid_method) IN
                  \E p \in FusedOrders(scores) :
                    /\ dense_ranks' = [id \in IdsOf(dd) |-> dd[PosOf(dd, id)].dense_rank]
                    /\ bm25_scores' = [id \in IdsOf(dd) |-> bm25[PosOf(dd, id)]]
                    /\ sparse_ranks' =
                          [id \in IdsOf(dd) |-> SparseRankOf(bm25, PosOf(dd, id))]
                    /\ fused' = [id \in IdsOf(dd) |-> scores[PosOf(dd, id)]]
                    /\ final_docs' = Reordered(dd, p)
                    /\ final_docs' \in HybridFusion(docs_law, cfg.enable_hybrid,
                                                    cfg.hybrid_method)
    /\ pc' = "fused"
    /\ UNCHANGED <<env, cl2, call, query, searched, reranked, cases, context, result, calls>>

NextFusion == HybridFusionCall

SpecFusion == InitFusion /\ [][NextFusion]_vars

\* ------------------------------------- reciprocal_rank_fusion on its own
\* largest rank in a rank map
MaxRank == 3

\* the doc ids the rank maps are over
DocIds == {"A", "B", "C"}

\* the rank maps of a ranking: some of the ids, no rank given twice
RankMaps ==
    UNION { { f \in [S -> 1..MaxRank] : \A a, b \in S : a # b => f[a] # f[b] } :
              S \in SUBSET DocIds }

\* the weights a call is made with, in tenths: the defaults 0.6 / 0.4 of the
\* configuration and the default 1.0 of the method
WeightsTenths == {HybridSparseWeightTenths, HybridDenseWeightTenths, 10}

RrfSettings ==
    [rrf_k : {RrfK}, hybrid_dense_weight : WeightsTenths,
     hybrid_sparse_weight : WeightsTenths]

\* ScoreFusion.reciprocal_rank_fusion(dense_ranks, sparse_ranks, k, w_dense,
\* w_sparse) about to be called
InitRrf ==
    /\ cfg \in RrfSettings
    /\ corpus = [law |-> {}, rule |-> {}, case |-> {}]
    /\ pc = "rrf"
    /\ entry = "reciprocal_rank_fusion"
    /\ skip_normalization = FALSE
    /\ query = ""
    /\ docs_law = <<>> /\ docs_rule = <<>> /\ docs_case_chunks = <<>>
    /\ combined = <<>>
    /\ ranked = NoRanking
    /\ filtered = <<>>
    /\ selected_docs = <<>>
    /\ chosen_cases = <<>> /\ fetched = <<>> /\ expanded_cases = <<>>
    /\ final_docs = <<>>
    /\ context = <<>>
    /\ dense_ranks \in RankMaps
    /\ sparse_ranks \in RankMaps
    /\ bm25_scores = <<>>
    /\ fused = <<>>
    /\ result = Pending
    /\ cl2 = Cl2Fresh
    /\ calls = <<>>

\* the static method returns its scores
RrfCall ==
    /\ pc = "rrf"
    /\ fused' = ReciprocalRankFusion(dense_ranks, sparse_ranks, cfg.rrf_k,
                                     cfg.hybrid_dense_weight, cfg.hybrid_sparse_weight)
    /\ pc' = "rrf_done"
    /\ UNCHANGED <<env, cl2, call, query, searched, reranked, cases, final_docs, context,
                   dense_ranks, sparse_ranks, bm25_scores, result, calls>>

NextRrf == RrfCall

SpecRrf == InitRrf /\ [][NextRrf]_vars

\* ------------------------------------------------------ rank_sum on its own
\* ScoreFusion.rank_sum(dense_ranks, sparse_ranks, w_dense, w_sparse) about to
\* be called
InitRankSum ==
    /\ cfg \in RrfSettings
    /\ corpus = [law |-> {}, rule |-> {}, case |-> {}]
    /\ pc = "rank_sum"
    /\ entry = "rank_sum"
    /\ skip_normalization = FALSE
    /\ query = ""
    /\ docs_law = <<>> /\ docs_rule = <<>> /\ docs_case_chunks = <<>>
    /\ combined = <<>>
    /\ ranked = NoRanking
    /\ filtered = <<>>
    /\ selected_docs = <<>>
    /\ chosen_cases = <<>> /\ fetched = <<>> /\ expanded_cases = <<>>
    /\ final_docs = <<>>
    /\ context = <<>>
    /\ dense_ranks \in RankMaps
    /\ sparse_ranks \in RankMaps
    /\ bm25_scores = <<>>
    /\ fused = <<>>
    /\ result = Pending
    /\ cl2 = Cl2Fresh
    /\ calls = <<>>

\* the static method returns its scores
RankSumCall ==
    /\ pc = "rank_sum"
    /\ fused' = RankSum(dense_ranks, sparse_ranks, cfg.hybrid_dense_weight,
                        cfg.hybrid_sparse_weight)
    /\ pc' = "rank_sum_done"
    /\ UNCHANGED <<env, cl2, call, query, searched, reranked, cases, final_docs, context,
                   dense_ranks, sparse_ranks, bm25_scores, result, calls>>

NextRankSum == RankSumCall

SpecRankSum == InitRankSum /\ [][NextRankSum]_vars

\* ------------------------------------------------ _cap_for_rerank on its own
\* largest rerank_max_documents of a capping call
MaxCapBudget == 4

\* longest candidate list of one index handed to _cap_for_rerank
MaxCapDocs == 2

\* the statute candidates: law-1 comes back a second time under the same
\* chunk_id
CapLawPool ==
    LawPool \cup
    { Doc(<<"law-1", "(again)">>, 1, NoInt, NoStr, "Act s.3", NoStr, PInt(1),
          "Housing Lease Act") }

CapConfigs ==
    { Config(MaxK, MaxK, MaxK, FALSE, DefaultMethod, r, r, NoInt, b) :
        r \in BOOLEAN, b \in 0..MaxCapBudget }

\* _cap_for_rerank(law, rule, case) about to run on the three candidate lists
InitCap ==
    /\ cfg \in CapConfigs
    /\ corpus = [law |-> CapLawPool, rule |-> RulePool, case |-> CasePool]
    /\ pc = "cap"
    /\ entry = "_cap_for_rerank"
    /\ skip_normalization = FALSE
    /\ query = UserInput
    /\ docs_law \in { Found(c, "law") : c \in SeqsNoRep(CapLawPool, MaxCapDocs) }
    /\ docs_rule \in { Found(c, "rule") : c \in SeqsNoRep(RulePool, MaxCapDocs) }
    /\ docs_case_chunks \in { Found(c, "case") : c \in SeqsNoRep(CasePool, MaxCapDocs) }
    /\ combined = <<>>
    /\ ranked = NoRanking
    /\ filtered = <<>>
    /\ selected_docs = <<>>
    /\ chosen_cases = <<>> /\ fetched = <<>> /\ expanded_cases = <<>>
    /\ final_docs = <<>>
    /\ context = <<>>
    /\ dense_ranks = <<>> /\ sparse_ranks = <<>> /\ bm25_scores = <<>> /\ fused = <<>>
    /\ result = Pending
    /\ cl2 = Cl2Fresh
    /\ calls = <<>>

NextCap == Cap

SpecCap == InitCap /\ [][NextCap]_vars

\* ------------------------------------------------------- BM25Scorer on its own
\* most documents a scorer is fitted on
MaxBm25Docs == 3

\* Text is a sequence of runs: a word, or a run of punctuation. _TOKEN_RE
\* finds the alphanumeric runs and SimpleTokenizer lowercases them.
Punctuation == ","
Lower(w) == IF w = "Deposit" THEN "deposit" ELSE w

\* SimpleTokenizer.tokenize
Tokenize(text) ==
    IF text = <<>> THEN <<>>
    ELSE LET runs == SelectSeq(text, LAMBDA w : w # Punctuation)
         IN [i \in DOMAIN runs |-> Lower(runs[i])]

\* Counter(tokens)[term]
CountOf(tokens, term) == Cardinality({ i \in DOMAIN tokens : tokens[i] = term })

TermsOf(tokens) == { tokens[i] : i \in DOMAIN tokens }

RECURSIVE SumLens(_)
SumLens(docs_tokens) ==
    IF docs_tokens = <<>> THEN 0
    ELSE Len(Head(docs_tokens)) + SumLens(Tail(docs_tokens))

\* math.log(1.0 + (N - dfi + 0.5) / (dfi + 0.5)), rounded to hundredths; past
\* the table, the approximant 2x / (2 + x) of log(1 + x), positive like it
Idf(N, dfi) ==
    CASE N = 1 -> F(29, 100)
      [] N = 2 -> F(<<69, 18>>[dfi], 100)
      [] N = 3 -> F(<<98, 47, 13>>[dfi], 100)
      [] N = 4 -> F(<<120, 69, 36, 11>>[dfi], 100)
      [] N = 5 -> F(<<139, 88, 54, 29, 9>>[dfi], 100)
      [] OTHER -> LET x == F(2 * (N - dfi) + 1, 2 * dfi + 1)
                  IN F(2 * x.n, 2 * x.d + x.n)

\* a + b over the least common denominator
FAddLcd(a, b) ==
    LET g == Gcd(a.d, b.d)
    IN F(a.n * (b.d \div g) + b.n * (a.d \div g), (a.d \div g) * b.d)

RECURSIVE FSum(_, _)
FSum(terms, weight) ==
    IF terms = {} THEN FZero
    ELSE LET t == CHOOSE x \in terms : TRUE
         IN FAddLcd(weight[t], FSum(terms \ {t}, weight))

\* k1 = 1.5, b = 0.75
Bm25K1 == F(3, 2)
Bm25B == F(3, 4)

\* the score of one document: the sum over the query terms it holds
Bm25DocScore(query_tokens, docs_tokens, toks) ==
    LET N == Len(docs_tokens)
        total == SumLens(docs_tokens)
        avgdl == IF total <= 0 THEN FOne ELSE F(total, N)
        dl == Len(toks)
        norm == FAdd(FSub(FOne, Bm25B), FMul(Bm25B, F(dl * avgdl.d, avgdl.n)))
        df(t) == Cardinality({ i \in DOMAIN docs_tokens : t \in TermsOf(docs_tokens[i]) })
        weight == [term \in TermsOf(query_tokens) \cap TermsOf(toks) |->
                    LET f == CountOf(toks, term)
                        qf == CountOf(query_tokens, term)
                        denom == FAdd(F(f, 1), FMul(Bm25K1, norm))
                        tfpart == F(f * (Bm25K1.n + Bm25K1.d) * denom.d,
                                    Bm25K1.d * denom.n)
                    IN FMul(FMul(Idf(N, df(term)), tfpart), F(10 + (qf - 1), 10))]
    IN FSum(DOMAIN weight, weight)

\* an empty query answered by an empty list
Bm25ScoresBuiltinEmptyForNoQuery(query_tokens, docs_tokens) ==
    IF Len(docs_tokens) = 0 \/ query_tokens = <<>> THEN <<>>
    ELSE [i \in DOMAIN docs_tokens |->
            Bm25DocScore(query_tokens, docs_tokens, docs_tokens[i])]

\* _bm25_scores_builtin
Bm25ScoresBuiltin(query_tokens, docs_tokens) ==
    IF Len(docs_tokens) = 0 THEN <<>>
    ELSE IF query_tokens = <<>> THEN [i \in DOMAIN docs_tokens |-> FZero]
    ELSE [i \in DOMAIN docs_tokens |->
            Bm25DocScore(query_tokens, docs_tokens, docs_tokens[i])]

\* BM25Scorer._use_builtin
UseBuiltin(settings) ==
    settings.bm25_algorithm = "builtin" \/ ~settings.rank_bm25_available

\* the scorers that score with the implementation of this module: algorithm
\* "builtin", or any algorithm where rank_bm25 is not importable
Bm25Settings ==
    { s \in [bm25_algorithm : {"builtin", "okapi", "plus"},
             rank_bm25_available : BOOLEAN] : UseBuiltin(s) }

\* BM25Scorer.fit
Bm25Fit(documents) == [i \in DOMAIN documents |-> Tokenize(documents[i].page_content)]

\* BM25Scorer.score on the fitted corpus, for a scorer with _use_builtin (every
\* scorer of Bm25Settings): the scores of _bm25_scores_builtin with the
\* defaults k1, b
Bm25Score(settings, corpus_tokens, text) ==
    Bm25ScoresBuiltin(Tokenize(text), corpus_tokens)

\* the documents a scorer is fitted on: one without content, one of
\* punctuation only
Bm25Pool ==
    { Doc(<<"lease", ",", "Deposit">>, 1, NoInt, NoStr, NoStr, NoStr, PAbsent, NoStr),
      Doc(<<"deposit", "deposit">>, 2, NoInt, NoStr, NoStr, NoStr, PAbsent, NoStr),
      Doc(<<>>, 3, NoInt, NoStr, NoStr, NoStr, PAbsent, NoStr),
      Doc(<<",">>, 4, NoInt, NoStr, NoStr, NoStr, PAbsent, NoStr) }

Bm25Queries ==
    { <<>>, <<",">>, <<"deposit">>, <<"Deposit", ",", "deposit", "lease">>,
      <<"rent">> }

\* BM25Scorer(...).fit(docs).score(query) about to run
InitBm25 ==
    /\ cfg \in Bm25Settings
    /\ corpus = [law |-> Bm25Pool, rule |-> {}, case |-> {}]
    /\ pc = "bm25"
    /\ entry = "BM25Scorer"
    /\ skip_normalization = FALSE
    /\ query \in Bm25Queries
    /\ docs_law \in SeqsNoRep(Bm25Pool, MaxBm25Docs)
    /\ docs_rule = <<>> /\ docs_case_chunks = <<>>
    /\ combined = <<>>
    /\ ranked = NoRanking
    /\ filtered = <<>>
    /\ selected_docs = <<>>
    /\ chosen_cases = <<>> /\ fetched = <<>> /\ expanded_cases = <<>>
    /\ final_docs = <<>>
    /\ context = <<>>
    /\ dense_ranks = <<>> /\ sparse_ranks = <<>> /\ bm25_scores = <<>> /\ fused = <<>>
    /\ result = Pending
    /\ cl2 = Cl2Fresh
    /\ calls = <<>>

\* fit tokenizes the documents, score the query; the scores are returned
Bm25FitAndScore ==
    /\ pc = "bm25"
    /\ bm25_scores' = Bm25Score(cfg, Bm25Fit(docs_law), query)
    /\ pc' = "bm25_scored"
    /\ UNCHANGED <<env, cl2, call, query, searched, reranked, cases, final_docs, context,
                   dense_ranks, sparse_ranks, fused, result, calls>>

NextBm25 == Bm25FitAndScore

SpecBm25 == InitBm25 /\ [][NextBm25]_vars

\* ------------------------------------- final_module_gmn.RAGPipeline
\* The older pipeline of the same directory: one fusion over the three
\* indexes' results, the case expansion, then the rerank.
\* candidates = fused_docs[:20]
GmnCandidateCap == 20

\* if r.relevance_score > 0.10, in the unit relevance scores are counted in
GmnRerankThreshold == 1

\* int(x) answers for an int, a float, a numeric string
IntAccepts(x) == x.t \in {"int", "float", "numstr"}

\* doc.metadata.get("chunk_id", doc.page_content[:50])
GmnDocId(d) ==
    IF d.chunk_id # NoInt THEN [f |-> "chunk_id", v |-> d.chunk_id, c |-> <<>>]
    ELSE [f |-> "content", v |-> 0, c |-> d.page_content]

\* the sum of 1 / (rrf_k + rank + 1) over the places an id stands at in a
\* result list (rank from 0)
GmnRrfOf(results, id, rrf_k) ==
    FSum({ i \in DOMAIN results : GmnDocId(results[i]) = id },
         [i \in DOMAIN results |-> F(1, rrf_k + i)])

RECURSIVE GmnSortByScore(_, _)
\* sorted(..., key=score, reverse=True): stable
GmnSortByScore(items, score) ==
    IF items = <<>> THEN <<>>
    ELSE LET rest == GmnSortByScore(SubSeq(items, 1, Len(items) - 1), score)
             d == items[Len(items)]
             before == SelectSeq(rest, LAMBDA x : FGe(score[GmnDocId(x)], score[GmnDocId(d)]))
             after == SelectSeq(rest, LAMBDA x : ~FGe(score[GmnDocId(x)], score[GmnDocId(d)]))
         IN before \o <<d>> \o after

RECURSIVE GmnFirstOfEachId(_, _)
\* rrf_score_map in insertion order: the first document met under each id
GmnFirstOfEachId(docs, seen) ==
    IF docs = <<>> THEN <<>>
    ELSE IF GmnDocId(Head(docs)) \in seen THEN GmnFirstOfEachId(Tail(docs), seen)
    ELSE <<Head(docs)>> \o GmnFirstOfEachId(Tail(docs), seen \cup {GmnDocId(Head(docs))})

\* _apply_rrf
GmnApplyRrf(dense_results, sparse_results, rrf_k) ==
    LET items == GmnFirstOfEachId(dense_results \o sparse_results, {})
        ids == { GmnDocId(items[i]) : i \in DOMAIN items }
        score == [id \in ids |-> FAddLcd(GmnRrfOf(dense_results, id, rrf_k),
                                         GmnRrfOf(sparse_results, id, rrf_k))]
    IN GmnSortByScore(items, score)

RECURSIVE GmnSortByChunkId(_)
\* sorted(results, key=chunk_id): the ids compared as numbers, stable
GmnSortByChunkId(docs) ==
    IF docs = <<>> THEN <<>>
    ELSE LET rest == GmnSortByChunkId(SubSeq(docs, 1, Len(docs) - 1))
             d == docs[Len(docs)]
             before == SelectSeq(rest, LAMBDA x : x.chunk_id <= d.chunk_id)
             after == SelectSeq(rest, LAMBDA x : x.chunk_id > d.chunk_id)
         IN before \o <<d>> \o after

RECURSIVE GmnUniqueChunks(_, _)
\* if cid and cid not in seen
GmnUniqueChunks(docs, seen) ==
    IF docs = <<>> THEN <<>>
    ELSE LET d == Head(docs) IN
         IF ~TruthyInt(d.chunk_id) \/ d.chunk_id \in seen
            THEN GmnUniqueChunks(Tail(docs), seen)
            ELSE <<d>> \o GmnUniqueChunks(Tail(docs), seen \cup {d.chunk_id})

\* _get_full_case_context, given what the case-law index returned; a chunk
\* without chunk_id among chunks with one makes the sort raise, the except
\* branch answers ""
GmnFullCaseContext(results) ==
    IF (\E i \in DOMAIN results : results[i].chunk_id = NoInt)
          /\ (\E i \in DOMAIN results : results[i].chunk_id # NoInt)
       THEN <<>>
       ELSE JoinLines(GmnUniqueChunks(GmnSortByChunkId(results), {}))

\* `if full_text:` on the joined text
GmnHasText(full_text) == full_text # <<>> /\ full_text # <<"">>

GmnFetchOutcomes(case_no) ==
    { [raised |-> FALSE, full_text |-> GmnFullCaseContext(r)] :
        r \in CaseChunkResults(case_no) }
    \cup { [raised |-> TRUE, full_text |-> <<>>] }

\* str(doc.metadata.get('title')) inside the f-string
GmnTitle(d) == IF d.title = NoStr THEN "None" ELSE d.title

\* new_doc of the expansion loop: the metadata object of the candidate
GmnExpandedDoc(d, full_text) ==
    [d EXCEPT !.page_content = <<FullCasePrefix, GmnTitle(d)>> \o full_text]

\* seen_cases: the case numbers a full text was appended for
GmnSeenCases(final_candidates) ==
    { final_candidates[i].case_no : i \in DOMAIN final_candidates }
        \ {NoStr, ""}

\* the documents whose score passes the threshold, in ranking order
GmnReranked(final_candidates, ranking) ==
    LET kept == SelectSeq(ranking, LAMBDA r : r.s > GmnRerankThreshold)
    IN [x \in DOMAIN kept |-> final_candidates[kept[x].i + 1]]

RECURSIVE SortByIntPriority(_)
\* sorted(docs, key=int(priority)): stable
SortByIntPriority(docs) ==
    IF docs = <<>> THEN <<>>
    ELSE LET rest == SortByIntPriority(SubSeq(docs, 1, Len(docs) - 1))
             d == docs[Len(docs)]
             before == SelectSeq(rest, LAMBDA x : PriorityOf(x) <= PriorityOf(d))
             after == SelectSeq(rest, LAMBDA x : PriorityOf(x) > PriorityOf(d))
         IN before \o <<d>> \o after

\* entry = f"[{src}] {title}\n{doc.page_content}"
GmnEntry(d) ==
    [src |-> IF d.src_title # NoStr THEN d.src_title ELSE "material",
     title |-> IF d.title = NoStr THEN "" ELSE d.title,
     body |-> d.page_content]

\* format_context_with_hierarchy of this pipeline, for priorities int() takes
GmnFormatContext(docs) ==
    LET sorted_docs == SortByIntPriority(docs)
        section(t) == SelectSeq(sorted_docs, LAMBDA d : TierOf(PriorityOf(d)) = t)
        part(t) == IF section(t) = <<>> THEN <<>>
                   ELSE <<[header |-> SectionHeader(t),
                           entries |-> [i \in DOMAIN section(t) |-> GmnEntry(section(t)[i])]]>>
    IN part(1) \o part(2) \o part(3)

\* top_k_dense, top_k_sparse, rrf_k; whether build_bm25_index was called and
\* whether a Cohere key was configured
GmnConfigs ==
    [top_k_dense : {MaxK}, top_k_sparse : {MaxK}, rrf_k : {RrfK},
     bm25_retriever : BOOLEAN, cohere_client : BOOLEAN]

\* one statute, one regulation whose priority int() rejects, a chunk of each
\* of two rulings
GmnCorpus ==
    [law |-> { d \in LawPool : d.page_content = <<"law-2">> },
     rule |-> { d \in RulePool : d.page_content = <<"rule-2">> },
     case |-> { d \in CasePool : d.chunk_id \in {12, 13} }]

\* a constructed pipeline, before generate_answer is called
InitGmn ==
    /\ cfg \in GmnConfigs
    /\ corpus = GmnCorpus
    /\ pc = "gmn_idle"
    /\ Fresh

\* generate_answer(user_input, skip_normalization=...)
GmnGenerateAnswer ==
    /\ pc = "gmn_idle"
    /\ entry' = "generate_answer"
    /\ \E skip \in BOOLEAN :
        /\ skip_normalization' = skip
        /\ query' = IF skip THEN UserInput ELSE query
        /\ pc' = IF skip THEN "gmn_search_law" ELSE "gmn_normalize"
    /\ UNCHANGED <<env, cl2, fusion, searched, reranked, cases, final_docs, context, result, calls>>

\* normalize_query: the chain's answer, the user's query when it raises
GmnNormalizeQuery ==
    /\ pc = "gmn_normalize"
    /\ \E raised \in BOOLEAN :
          /\ query' = NormalizeResult(raised, UserInput)
          /\ calls' = Append(calls, Call("normalize", UserInput, raised))
    /\ pc' = "gmn_search_law"
    /\ UNCHANGED <<env, cl2, fusion, call, searched, reranked, cases, final_docs, context, result>>

\* a dense search raising: nothing around it catches
GmnSearchRaises(source) ==
    /\ pc' = "raised"
    /\ result' = Raised
    /\ calls' = Append(calls, Call("search", source, TRUE))
    /\ UNCHANGED searched

GmnSearchLaw ==
    /\ pc = "gmn_search_law"
    /\ \/ \E docs \in SearchResults(corpus.law, cfg.top_k_dense) :
            /\ docs_law' = docs
            /\ pc' = "gmn_search_rule"
            /\ calls' = Append(calls, Call("search", "law", FALSE))
            /\ UNCHANGED <<docs_rule, docs_case_chunks, result>>
       \/ GmnSearchRaises("law")
    /\ UNCHANGED <<env, cl2, fusion, call, query, reranked, cases, final_docs, context>>

GmnSearchRule ==
    /\ pc = "gmn_search_rule"
    /\ \/ \E docs \in SearchResults(corpus.rule, cfg.top_k_dense) :
            /\ docs_rule' = docs
            /\ pc' = "gmn_search_case"
            /\ calls' = Append(calls, Call("search", "rule", FALSE))
            /\ UNCHANGED <<docs_law, docs_case_chunks, result>>
       \/ GmnSearchRaises("rule")
    /\ UNCHANGED <<env, cl2, fusion, call, query, reranked, cases, final_docs, context>>

GmnSearchCase ==
    /\ pc = "gmn_search_case"
    /\ \/ \E docs \in SearchResults(corpus.case, cfg.top_k_dense * 2) :
            /\ docs_case_chunks' = docs
            /\ pc' = "gmn_fuse"
            /\ calls' = Append(calls, Call("search", "case", FALSE))
            /\ UNCHANGED <<docs_law, docs_rule, result>>
       \/ GmnSearchRaises("case")
    /\ UNCHANGED <<env, cl2, fusion, call, query, reranked, cases, final_docs, context>>

\* steps 2 and 3: the BM25 retriever's results when one was built, the RRF
\* fusion; combined holds the candidates still to be visited by the expansion
\* loop, selected_docs is final_candidates
GmnFuse ==
    /\ pc = "gmn_fuse"
    /\ \E sparse_results \in
            IF cfg.bm25_retriever
               THEN SearchResults(corpus.law \cup corpus.rule \cup corpus.case,
                                  cfg.top_k_sparse)
               ELSE {<<>>} :
          combined' = Take(GmnApplyRrf(docs_law \o docs_rule \o docs_case_chunks,
                                       sparse_results, cfg.rrf_k),
                           GmnCandidateCap)
    /\ selected_docs' = <<>>
    /\ pc' = "gmn_expand"
    /\ UNCHANGED <<env, cl2, fusion, call, query, searched, ranked, filtered, cases,
                   final_docs, context, result, calls>>

\* one turn of the expansion loop: a candidate without case number is kept;
\* one with a number not yet expanded is fetched, and kept only when a text
\* came back
GmnExpandCandidate ==
    /\ pc = "gmn_expand"
    /\ combined # <<>>
    /\ LET doc == Head(combined) IN
        IF ~TruthyStr(doc.case_no)
           THEN /\ selected_docs' = Append(selected_docs, doc)
                /\ UNCHANGED <<fetched, calls>>
        ELSE IF doc.case_no \in GmnSeenCases(selected_docs)
           THEN UNCHANGED <<selected_docs, fetched, calls>>
        ELSE \E o \in GmnFetchOutcomes(doc.case_no) :
                /\ fetched' = Append(fetched, o)
                /\ calls' = Append(calls, Call("fetch", doc.case_no, o.raised))
                /\ selected_docs' =
                        IF GmnHasText(o.full_text)
                           THEN Append(selected_docs, GmnExpandedDoc(doc, o.full_text))
                           ELSE selected_docs
    /\ combined' = Tail(combined)
    /\ UNCHANGED <<pc, env, cl2, fusion, call, query, searched, ranked, filtered,
                   chosen_cases, expanded_cases, final_docs, context, result>>

\* step 5: the rerank when a client exists and candidates are left, the
\* candidates themselves when it raises; triple_hybrid_retrieval returns
GmnRerank ==
    /\ pc = "gmn_expand"
    /\ combined = <<>>
    /\ IF cfg.cohere_client /\ selected_docs # <<>>
          THEN \/ \E r \in Rankings(Len(selected_docs)) :
                    /\ ranked' = r
                    /\ final_docs' = GmnReranked(selected_docs, r)
                    /\ calls' = Append(calls, Call("rerank", query, FALSE))
               \/ /\ ranked' = NoRanking
                  /\ final_docs' = selected_docs
                  /\ calls' = Append(calls, Call("rerank", query, TRUE))
          ELSE /\ final_docs' = selected_docs
               /\ UNCHANGED <<ranked, calls>>
    /\ pc' = "gmn_answer"
    /\ UNCHANGED <<env, cl2, fusion, call, query, searched, combined, filtered, selected_docs,
                   cases, context, result>>

\* generate_answer after the retrieval: the fixed answer for no documents;
\* else the context, int(priority) raising out of generate_answer for a
\* priority it rejects
GmnBuildContext ==
    /\ pc = "gmn_answer"
    /\ IF final_docs = <<>>
          THEN /\ result' = Returned(NoMaterialAnswer)
               /\ pc' = "done"
               /\ UNCHANGED context
       ELSE IF \E i \in DOMAIN final_docs : ~IntAccepts(GetPriority(final_docs[i]))
          THEN /\ result' = Raised
               /\ pc' = "raised"
               /\ UNCHANGED context
          ELSE /\ context' = GmnFormatContext(final_docs)
               /\ pc' = "gmn_generate"
               /\ UNCHANGED result
    /\ UNCHANGED <<env, cl2, fusion, call, query, searched, reranked, cases, final_docs, calls>>

\* the generation chain answering or raising
GmnGenerate ==
    /\ pc = "gmn_generate"
    /\ \E raised \in BOOLEAN :
          /\ result' = GenerationResult(raised)
          /\ calls' = Append(calls, Call("generate", query, raised))
    /\ pc' = "done"
    /\ UNCHANGED <<env, cl2, fusion, call, query, searched, reranked, cases, final_docs, context>>

NextGmn ==
    \/ GmnGenerateAnswer \/ GmnNormalizeQuery
    \/ GmnSearchLaw \/ GmnSearchRule \/ GmnSearchCase
    \/ GmnFuse \/ GmnExpandCandidate \/ GmnRerank
    \/ GmnBuildContext \/ GmnGenerate

\* generate_answer of final_module_gmn on a constructed pipeline
SpecGmn == InitGmn /\ [][NextGmn]_vars

\* ------------------------------- rag_module_cl2.RAGPipeline, beside cld's
\* triple_hybrid_retrieval of rag_module_cl2 called with the query, the
\* settings and the collaborators of a finished call of final_module_cld's:
\* a collaborator asked the same thing answers the same.

\* a document as an index returns it, without the keys final_module_cld
\* writes into the metadata
Plain(d) ==
    [d EXCEPT !.source_index = NoStr, !.dense_rank = NoInt, !.hybrid_rank = NoInt,
              !.expanded = FALSE]
PlainDocs(docs) == [i \in DOMAIN docs |-> Plain(docs[i])]

IsPrefix(a, b) == Len(a) <= Len(b) /\ a = SubSeq(b, 1, Len(a))

\* what the case-law index answers to similarity_search(query, k_case *
\* multiplier): what it answered to final_module_cld when that asked for as
\* many, else a top-k list in line with that answer
Cl2CaseAnswers ==
    LET k == cfg.k_case * cfg.search_multiplier
        answered == PlainDocs(docs_case_chunks)
    IN IF k = cfg.case_candidate_k THEN {answered}
       ELSE { r \in SearchResults(corpus.case, k) :
                IsPrefix(r, answered) \/ IsPrefix(answered, r) }

\* get_full_case_context: chunks sorted by chunk_id as numbers, the chunks
\* with a falsy or repeated chunk_id dropped, the join not stripped
Cl2FullCaseContext(results) == GmnFullCaseContext(results)

\* how the fetch for a case number goes: as it went for final_module_cld
\* when that fetched the number (an index answer that gives the text cld
\* read), else freely
Cl2FetchOutcomes(case_no) ==
    LET asked == { i \in DOMAIN fetched : chosen_cases[i].case_no = case_no }
    IN IF asked = {}
          THEN { [raised |-> FALSE, full_text |-> Cl2FullCaseContext(r)] :
                    r \in CaseChunkResults(case_no) }
               \cup { [raised |-> TRUE, full_text |-> <<>>] }
          ELSE UNION { IF fetched[i].raised
                          THEN { [raised |-> TRUE, full_text |-> <<>>] }
                          ELSE { [raised |-> FALSE, full_text |-> Cl2FullCaseContext(r)] :
                                    r \in { x \in CaseChunkResults(case_no) :
                                              FullCaseContext(x) = fetched[i].full_text } } :
                       i \in asked }

\* doc.page_content = f"[... {doc.metadata.get('title')}]\n{full_text}": the
\* candidate itself is rewritten
Cl2Rewritten(doc, full_text) ==
    [doc EXCEPT !.page_content = <<FullCasePrefix, GmnTitle(doc)>> \o full_text]

\* what the reranker answers for combined_docs: what it answered to
\* final_module_cld when that sent the same texts, else freely
Cl2RerankAnswers(combined_docs) ==
    IF (\E i \in DOMAIN calls : calls[i].op = "rerank")
          /\ [i \in DOMAIN combined_docs |-> combined_docs[i].page_content]
                = [i \in DOMAIN combined |-> combined[i].page_content]
       THEN {ranked}
       ELSE Rankings(Len(combined_docs)) \cup {NoRanking}

\* the threshold loop over rerank_results.results
Cl2Filtered(combined_docs, rerank_results, threshold) ==
    LET kept == SelectSeq(rerank_results, LAMBDA r : r.s > threshold)
    IN [x \in DOMAIN kept |-> combined_docs[kept[x].i + 1]]

\* the largest rerank_max_documents: no candidate list is cut by it
MaxVariantBudget == 4

\* fusion off, reranking on with a client, every k
VariantConfigs ==
    { Config(kl, kr, kc, FALSE, DefaultMethod, TRUE, TRUE, NoInt, MaxVariantBudget) :
        kl \in 0..MaxK, kr \in 0..MaxK, kc \in 0..MaxK }

\* a statute, a regulation whose priority int() rejects, a chunk of a ruling
VariantCorpus ==
    [law |-> { d \in LawPool : d.page_content = <<"law-1">> },
     rule |-> { d \in RulePool : d.page_content = <<"rule-2">> },
     case |-> { d \in CasePool : d.chunk_id = 13 }]

InitVariants ==
    /\ cfg \in VariantConfigs
    /\ corpus = VariantCorpus
    /\ pc = "idle"
    /\ Fresh

\* step 1 of rag_module_cl2's triple_hybrid_retrieval: the three searches
Cl2Search ==
    /\ pc = "returned"
    /\ \E docs_case_initial \in Cl2CaseAnswers :
          cl2' = [cl2 EXCEPT !.docs_law = PlainDocs(docs_law),
                             !.docs_rule = PlainDocs(docs_rule),
                             !.docs_case_initial = docs_case_initial,
                             !.calls = <<Call("search", "law", FALSE),
                                         Call("search", "rule", FALSE),
                                         Call("search", "case", FALSE)>>]
    /\ pc' = "cl2_expand"
    /\ UNCHANGED <<env, fusion, call, query, searched, reranked, cases, final_docs,
                   context, result, calls>>

\* seen_cases: the case numbers already expanded
Cl2SeenCases == { cl2.docs_case_expanded[i].case_no : i \in DOMAIN cl2.docs_case_expanded }

\* step 2, one turn of the loop over docs_case_initial: a candidate with a
\* case number not yet seen is fetched and, when a text comes back, rewritten
\* in place and appended; the loop ends once k_case cases are expanded
Cl2ExpandCandidate ==
    /\ pc = "cl2_expand"
    /\ cl2.visited < Len(cl2.docs_case_initial)
    /\ LET at == cl2.visited + 1
           doc == cl2.docs_case_initial[at]
       IN IF TruthyStr(doc.case_no) /\ doc.case_no \notin Cl2SeenCases
             THEN \E o \in Cl2FetchOutcomes(doc.case_no) :
                    LET has_text == GmnHasText(o.full_text)
                        rewritten == Cl2Rewritten(doc, o.full_text)
                        expanded == IF has_text
                                       THEN Append(cl2.docs_case_expanded, rewritten)
                                       ELSE cl2.docs_case_expanded
                    IN cl2' = [cl2 EXCEPT
                                !.docs_case_initial =
                                    IF has_text THEN [@ EXCEPT ![at] = rewritten] ELSE @,
                                !.docs_case_expanded = expanded,
                                !.calls = Append(@, Call("fetch", doc.case_no, o.raised)),
                                !.visited = IF Len(expanded) >= cfg.k_case
                                               THEN Len(cl2.docs_case_initial) ELSE at]
             ELSE cl2' = [cl2 EXCEPT !.visited = at]
    /\ UNCHANGED <<pc, env, fusion, call, query, searched, reranked, cases, final_docs,
                   context, result, calls>>

\* steps 3 and 4: the merge and the rerank; the documents scoring above the
\* threshold are selected, all of them when the reranker raises
Cl2Rerank ==
    /\ pc = "cl2_expand"
    /\ cl2.visited = Len(cl2.docs_case_initial)
    /\ LET combined_docs == cl2.docs_law \o cl2.docs_rule \o cl2.docs_case_expanded IN
        IF cfg.enable_rerank /\ cfg.cohere_client
           THEN \E r \in Cl2RerankAnswers(combined_docs) :
                  cl2' = [cl2 EXCEPT
                            !.combined_docs = combined_docs,
                            !.rerank_results = r,
                            !.selected_docs =
                                IF r = NoRanking THEN combined_docs
                                ELSE Cl2Filtered(combined_docs, r, cfg.rerank_threshold),
                            !.calls = Append(@, Call("rerank", query, r = NoRanking))]
           ELSE cl2' = [cl2 EXCEPT !.combined_docs = combined_docs,
                                   !.selected_docs = combined_docs]
    /\ pc' = "cl2_sort"
    /\ UNCHANGED <<env, fusion, call, query, searched, reranked, cases, final_docs,
                   context, result, calls>>

\* step 5: sorted(selected_docs, key=int(priority)); int() raising leaves
\* triple_hybrid_retrieval and generate_answer
Cl2Return ==
    /\ pc = "cl2_sort"
    /\ IF \E i \in DOMAIN cl2.selected_docs : ~IntAccepts(GetPriority(cl2.selected_docs[i]))
          THEN pc' = "cl2_raised" /\ cl2' = [cl2 EXCEPT !.result = Raised]
          ELSE /\ cl2' = [cl2 EXCEPT !.sorted_docs = SortByIntPriority(cl2.selected_docs)]
               /\ pc' = "cl2_returned"
    /\ UNCHANGED <<env, fusion, call, query, searched, reranked, cases, final_docs,
                   context, result, calls>>

\* format_context_with_hierarchy of rag_module_cl2: the documents filed in
\* the order given, the entries not stripped
Cl2FormatContext(docs) ==
    LET section(t) == SelectSeq(docs, LAMBDA d : TierOf(PriorityOf(d)) = t)
        part(t) == IF section(t) = <<>> THEN <<>>
                   ELSE <<[header |-> SectionHeader(t),
                           entries |-> [i \in DOMAIN section(t) |-> GmnEntry(section(t)[i])]]>>
    IN part(1) \o part(2) \o part(3)

\* generate_answer of rag_module_cl2 after the retrieval: the fixed answer for
\* no documents, else the context
Cl2BuildContext ==
    /\ pc = "cl2_returned"
    /\ IF cl2.sorted_docs = <<>>
          THEN /\ cl2' = [cl2 EXCEPT !.result = Returned(NoMaterialAnswer)]
               /\ pc' = "cl2_done"
          ELSE /\ cl2' = [cl2 EXCEPT !.context = Cl2FormatContext(cl2.sorted_docs)]
               /\ pc' = "cl2_generate"
    /\ UNCHANGED <<env, fusion, call, query, searched, reranked, cases, final_docs,
                   context, result, calls>>

\* return chain.invoke(...): the chain's answer, or its exception leaving
\* generate_answer
Cl2Generate ==
    /\ pc = "cl2_generate"
    /\ \E raised \in BOOLEAN :
          cl2' = [cl2 EXCEPT !.result = IF raised THEN Raised ELSE Returned(LlmAnswer),
                             !.calls = Append(@, Call("generate", query, raised))]
    /\ pc' = "cl2_done"
    /\ UNCHANGED <<env, fusion, call, query, searched, reranked, cases, final_docs,
                   context, result, calls>>

\* enable_hybrid is off: _hybrid_fusion is not called
NextVariants ==
    \/ TripleHybridRetrieval
    \/ SearchLaw \/ SearchRule \/ SearchCase
    \/ Cap \/ Rerank \/ Select \/ ExpandCase \/ FinishRetrieval
    \/ Cl2Search \/ Cl2ExpandCandidate \/ Cl2Rerank \/ Cl2Return
    \/ Cl2BuildContext \/ Cl2Generate

\* triple_hybrid_retrieval of final_module_cld, then generate_answer of
\* rag_module_cl2 with skip_normalization=True on the same query
SpecVariants == InitVariants /\ [][NextVariants]_vars

\* ================================================================= claims
Range(s) == { s[i] : i \in DOMAIN s }

\* the running call is past step 5 of triple_hybrid_retrieval
AfterSelect == pc \in {"expand", "returned", "answer", "generate", "done"}

\* the rerank client was called and raised
RerankRaised == \E c \in Range(calls) : c.op = "rerank" /\ c.raised

\* C1: no failure of an external collaborator escapes generate_answer or
\* triple_hybrid_retrieval: whichever collaborator calls raise, the call ends
\* with a returned value, never with an exception.
C1_NoCollaboratorFailureEscapes == result.kind # "raised" /\ pc # "raised"

\* C2: triple_hybrid_retrieval returns its documents in ascending order of
\* integer priority (99 for an absent or unparseable priority): of every two
\* adjacent documents the first has the smaller or equal priority.
C2_PriorityAscending ==
    pc = "returned" =>
        \A i \in 1..(Len(final_docs) - 1) :
            PriorityOf(final_docs[i]) <= PriorityOf(final_docs[i + 1])

\* a returned list that the sort had to reorder: the regulation (3), the
\* expanded case (9), then the statute without a priority (99)
C2_Witness ==
    /\ pc = "returned"
    /\ Len(final_docs) = 3
    /\ final_docs[1].source_index = "rule" /\ PriorityOf(final_docs[1]) = 3
    /\ final_docs[2].source_index = "case" /\ PriorityOf(final_docs[2]) = 9
    /\ final_docs[2].expanded
    /\ final_docs[3].source_index = "law" /\ final_docs[3].priority = PAbsent

\* the positions of docs that no earlier position shares a dedup key with
FirstOfKey(docs) ==
    { i \in DOMAIN docs : \A j \in 1..(i - 1) : DocKey(docs[j]) # DocKey(docs[i]) }

\* sub is docs restricted to the positions in keep, order kept
IsRestriction(sub, docs, keep) ==
    /\ Len(sub) = Cardinality(keep)
    /\ \A i \in keep : sub[Cardinality({j \in keep : j <= i})] = docs[i]

\* C3 as stated: when the rerank client raises, the call does not raise and
\* the documents handed to the later stages are exactly the capped pre-rerank
\* candidates, in their order.
C3_SelectedIsCappedSet ==
    (AfterSelect /\ RerankRaised) =>
        /\ result.kind # "raised"
        /\ selected_docs = combined

\* C3 amended: when the rerank client raises, the call does not raise and the
\* documents handed to the later stages are the capped pre-rerank candidates
\* in their order, less every candidate whose dedup key an earlier candidate
\* of the capped set already carries.
C3_SelectedIsDedupedCappedSet ==
    (AfterSelect /\ RerankRaised) =>
        /\ result.kind # "raised"
        /\ IsRestriction(selected_docs, combined, FirstOfKey(combined))

\* the rerank raised, the call returned, and a regulation sharing a statute's
\* chunk_id was dropped from the capped set
C3_Witness ==
    /\ pc = "returned"
    /\ RerankRaised
    /\ Len(combined) = 3
    /\ Len(selected_docs) = 2

\* the client returned a ranking and none of its scores reaches the threshold
NoneReaches ==
    /\ ranked # NoRanking /\ ranked # <<>>
    /\ \A x \in DOMAIN ranked : ranked[x].s < cfg.rerank_threshold

KSum == cfg.k_law + cfg.k_rule + cfg.k_case

\* filtered is the first min(k_law + k_rule + k_case, len(ranked)) pairs of ranked
IsFallbackPrefix ==
    /\ Len(filtered) = (IF KSum <= Len(ranked) THEN KSum ELSE Len(ranked))
    /\ \A x \in DOMAIN filtered : filtered[x] = ranked[x]

\* C4 as stated: with a non-empty ranking of which no score reaches the
\* threshold, the selection is not empty: it is the first
\* min(k_law + k_rule + k_case, len(ranked)) ranked items, in ranking order.
C4_FallbackNeverEmpty ==
    (AfterSelect /\ NoneReaches) =>
        /\ filtered # <<>>
        /\ IsFallbackPrefix

\* C4 amended: with a non-empty ranking of which no score reaches the
\* threshold, the selection is the first min(k_law + k_rule + k_case,
\* len(ranked)) ranked items, in ranking order; it is not empty when
\* k_law + k_rule + k_case >= 1.
C4_FallbackPrefix ==
    (AfterSelect /\ NoneReaches) =>
        /\ IsFallbackPrefix
        /\ KSum >= 1 => (filtered # <<>> /\ selected_docs # <<>>)
        /\ \A d \in Range(selected_docs) :
              \E x \in DOMAIN filtered : d = combined[filtered[x].i + 1]

\* the fallback cut a longer ranking down to k_law + k_rule + k_case items
C4_Witness ==
    /\ AfterSelect /\ NoneReaches
    /\ KSum = 2
    /\ Len(ranked) = 3
    /\ Len(filtered) = 2

Count(docs, source) == Len(FromSource(docs, source))

\* C5: a result of triple_hybrid_retrieval holds at most k_law statute
\* documents, at most k_rule regulation documents and at most k_case case-law
\* documents, with fusion and reranking on or off.
C5_PerSourceCaps ==
    pc = "returned" =>
        /\ Count(final_docs, "law") <= cfg.k_law
        /\ Count(final_docs, "rule") <= cfg.k_rule
        /\ Count(final_docs, "case") <= cfg.k_case

\* fusion and reranking on, two statutes selected, one returned
C5_Witness ==
    /\ pc = "returned"
    /\ cfg.enable_hybrid /\ ranked # NoRanking
    /\ Count(selected_docs, "law") = 2
    /\ cfg.k_law = 1
    /\ Count(final_docs, "law") = 1

\* the positions of the ranked case-law candidates that carry a case number no
\* earlier candidate carries
FirstOfCaseNo(case_ranked) ==
    { i \in DOMAIN case_ranked :
        /\ TruthyStr(case_ranked[i].case_no)
        /\ \A j \in 1..(i - 1) : case_ranked[j].case_no # case_ranked[i].case_no }

\* the first n positions of a set of positions
FirstN(positions, n) ==
    { i \in positions : Cardinality({ j \in positions : j <= i }) <= n }

ExpandTopN == TopN(cfg.case_expand_top_n, cfg.k_case)

\* C6: the case expansion selects, for each of the first top_n distinct case
\* numbers of the ranked case-law candidates, the first candidate carrying it,
\* in ranked order: candidates without a case number or with a case number
\* already seen are skipped, and no two selected documents share a case number.
C6_ChosenAreFirstTopN ==
    AfterSelect =>
        /\ IsRestriction(chosen_cases, CaseRanked,
                         FirstN(FirstOfCaseNo(CaseRanked), ExpandTopN))
        /\ \A i, j \in DOMAIN chosen_cases :
              i # j => chosen_cases[i].case_no # chosen_cases[j].case_no

\* every full-text fetch of the call returned text
EveryFetchReturnedText ==
    \A i \in DOMAIN fetched : ~fetched[i].raised /\ fetched[i].full_text # <<>>

\* the document is the expansion of the chosen chunk d
IsExpansionOf(x, d) ==
    /\ x.expanded
    /\ Len(x.page_content) >= 2
    /\ x.page_content[1] = FullCasePrefix
    /\ x.page_content[2] = CaseTitle(d)

\* C7: with d distinct case numbers among the ranked case-law candidates and
\* every full-text fetch returning text, the case expansion outputs exactly
\* min(top_n, d) documents, each flagged expanded and beginning with the
\* full-case-text prefix that names the case title.
C7_ExpandedCount ==
    (pc = "returned" /\ EveryFetchReturnedText) =>
        /\ Len(expanded_cases) =
              Min(ExpandTopN, Cardinality(FirstOfCaseNo(CaseRanked)))
        /\ \A i \in DOMAIN expanded_cases :
              IsExpansionOf(expanded_cases[i], chosen_cases[i])

\* the fetch for the i-th chosen case raised or yielded empty text
FetchFailed(i) == fetched[i].raised \/ fetched[i].full_text = <<>>

\* final_module_cld, lines 751-767 and 1011-1029, run with its RAGConfig: a
\* chosen case whose fetch raised or gave no text stays as its chunk, the
\* others are expanded, the call does not fail
CldFailedFetchKeepsChunk ==
    "k_case" \in DOMAIN cfg =>
        /\ result.kind # "raised"
        /\ Len(fetched) = Len(expanded_cases)
        /\ \A i \in DOMAIN expanded_cases :
              IF FetchFailed(i)
                 THEN expanded_cases[i] = chosen_cases[i] /\ ~expanded_cases[i].expanded
                 ELSE IsExpansionOf(expanded_cases[i], chosen_cases[i])
        /\ pc = "returned" => Len(expanded_cases) = Len(chosen_cases)

\* final_module_gmn, lines 317-334: in final_candidates, after every fetch
\* that gave no text, stands the chunk the fetch was made for
GmnFailedFetchKeepsChunk ==
    pc = "gmn_expand" =>
        LET fetches == SelectSeq(calls, LAMBDA c : c.op = "fetch") IN
        \A i \in DOMAIN fetched :
            ~GmnHasText(fetched[i].full_text) =>
                \E j \in DOMAIN selected_docs :
                    /\ selected_docs[j].case_no = fetches[i].arg
                    /\ Plain(selected_docs[j]) \in corpus.case

\* C8: a selected case whose full-text fetch raises or yields empty text keeps
\* its original chunk document in its position, content and metadata unchanged
\* and without the expanded flag; the retrieval call does not fail, and the
\* other selected cases are expanded; in final_module_cld and in
\* final_module_gmn.
C8_FailedFetchKeepsChunk == CldFailedFetchKeepsChunk /\ GmnFailedFetchKeepsChunk

\* the call returned after the first fetch raised and the second returned
\* text: the first chunk kept and returned as it was, the second case expanded
C8_Witness ==
    /\ pc = "returned"
    /\ Len(chosen_cases) = 2
    /\ fetched[1].raised
    /\ expanded_cases[1] = chosen_cases[1]
    /\ ~fetched[2].raised /\ fetched[2].full_text # <<>>
    /\ expanded_cases[2].expanded
    /\ cfg.k_case = 2
    /\ \E x \in Range(final_docs) : x = chosen_cases[1]

\* the entries of tier t in the formatted context (none when it has no header)
SectionEntries(t) ==
    IF \E x \in DOMAIN context : context[x].header = SectionHeader(t)
       THEN (CHOOSE s \in Range(context) : s.header = SectionHeader(t)).entries
       ELSE <<>>

\* the tier the hierarchy assigns to an integer priority
StatedTier(p) ==
    IF p \in {1, 2, 4, 5} THEN 1 ELSE IF p \in {3, 6, 7, 8, 11} THEN 2 ELSE 3

\* the positions of the input whose integer priority falls in tier t
StatedPositions(t) ==
    { i \in DOMAIN final_docs : StatedTier(PriorityOf(final_docs[i])) = t }

\* C9: format_context_with_hierarchy places every input document in exactly
\* one tier by its integer priority: {1,2,4,5} in Tier 1, {3,6,7,8,11} in
\* Tier 2, every other value (9 and the default 99 of an absent priority
\* included) in Tier 3.
C9_TierByPriority ==
    pc = "formatted" =>
        /\ \A t \in 1..3 :
              /\ Len(SectionEntries(t)) = Cardinality(StatedPositions(t))
              /\ \A i \in StatedPositions(t) :
                    Entry(final_docs[i]) \in Range(SectionEntries(t))
        /\ Len(SectionEntries(1)) + Len(SectionEntries(2)) + Len(SectionEntries(3))
              = Len(final_docs)

\* priority 9 and an absent priority filed in Tier 3, priority 3 in Tier 2
C9_Witness ==
    /\ pc = "formatted"
    /\ Len(final_docs) = 3
    /\ final_docs[1].priority = PInt(9)
    /\ final_docs[2].priority = PAbsent
    /\ final_docs[3].priority = PInt(3)
    /\ SectionEntries(3) = <<Entry(final_docs[1]), Entry(final_docs[2])>>
    /\ SectionEntries(2) = <<Entry(final_docs[3])>>
    /\ SectionEntries(1) = <<>>

\* the entries of the input documents at the given positions, in input order
EntriesAt(positions) ==
    [x \in 1..Cardinality(positions) |->
        Entry(final_docs[CHOOSE i \in positions :
                            Cardinality({ j \in positions : j <= i }) = x])]

\* final_module_cld, lines 1057-1071: every tier holds the entries of some
\* input positions, in input order
CldInputOrderWithinTier ==
    pc = "formatted" =>
        \A t \in 1..3 :
            \E positions \in SUBSET DOMAIN final_docs :
                SectionEntries(t) = EntriesAt(positions)

\* the entries final_module_gmn builds for the input documents at the given
\* positions, in input order
GmnEntriesAt(positions) ==
    [x \in 1..Cardinality(positions) |->
        GmnEntry(final_docs[CHOOSE i \in positions :
                               Cardinality({ j \in positions : j <= i }) = x])]

\* final_module_gmn, lines 394-424: the same of its format_context_with_hierarchy
GmnInputOrderWithinTier ==
    pc = "gmn_generate" =>
        \A t \in 1..3 :
            \E positions \in SUBSET DOMAIN final_docs :
                SectionEntries(t) = GmnEntriesAt(positions)

\* C10: within each tier of the output of format_context_with_hierarchy the
\* entries stand in the relative order of their documents in the input list,
\* priority-sorted or not; in final_module_cld and in final_module_gmn.
C10_InputOrderWithinTier == CldInputOrderWithinTier /\ GmnInputOrderWithinTier

\* an input that is not priority-sorted: 5 before 1, both in Tier 1 in that order
C10_Witness ==
    /\ pc = "formatted"
    /\ Len(final_docs) = 3
    /\ PriorityOf(final_docs[1]) = 5
    /\ PriorityOf(final_docs[2]) = 9
    /\ PriorityOf(final_docs[3]) = 1
    /\ SectionEntries(1) = <<Entry(final_docs[1]), Entry(final_docs[3])>>

\* the tier whose header a part of the context carries
TierOfHeader(h) == CHOOSE t \in 1..3 : SectionHeader(t) = h

\* C11: the output of format_context_with_hierarchy carries the header of a
\* tier if and only if an input document falls in that tier, the tiers present
\* stand in the order Tier 1, Tier 2, Tier 3, and an empty document list gives
\* an empty text.
C11_HeaderIffTierNonEmpty ==
    pc = "formatted" =>
        /\ \A t \in 1..3 :
              (\E x \in DOMAIN context : context[x].header = SectionHeader(t))
                  <=> StatedPositions(t) # {}
        /\ \A x, y \in DOMAIN context :
              x < y => TierOfHeader(context[x].header) < TierOfHeader(context[y].header)
        /\ \A x \in DOMAIN context : context[x].entries # <<>>
        /\ final_docs = <<>> => context = <<>>

\* a Tier 3 document before a Tier 1 document, none of Tier 2: two headers,
\* Tier 1 first
C11_Witness ==
    /\ pc = "formatted"
    /\ Len(final_docs) = 2
    /\ StatedTier(PriorityOf(final_docs[1])) = 3
    /\ StatedTier(PriorityOf(final_docs[2])) = 1
    /\ Len(context) = 2
    /\ context[1].header = SectionHeader(1)
    /\ context[2].header = SectionHeader(3)

GenerationCalled == \E c \in Range(calls) : c.op = "generate"

\* C13: when the retrieval yields no documents, generate_answer returns the
\* fixed no-relevant-material answer and never calls the answer-generation
\* collaborator.
C13_NoDocsFixedAnswer ==
    (entry = "generate_answer" /\ final_docs = <<>>) =>
        /\ pc # "generate"
        /\ ~GenerationCalled
        /\ pc = "done" => result = Returned(NoMaterialAnswer)

\* candidates were retrieved, none survived the per-source caps, and the
\* call returned the fixed answer
C13_Witness ==
    /\ pc = "done"
    /\ combined # <<>>
    /\ final_docs = <<>>
    /\ result = Returned(NoMaterialAnswer)

\* the normalization chain was invoked and raised
NormalizationRaised == \E c \in Range(calls) : c.op = "normalize" /\ c.raised

\* C14: normalize_query never raises: when the normalization collaborator
\* fails it returns the user's query unmodified, and generate_answer runs the
\* retrieval and the generation with that unmodified query.
C14_NormalizeFallsBack ==
    /\ (calls # <<>> /\ calls[Len(calls)].op = "normalize") =>
            (pc = "search_law" /\ result = Pending)
    /\ NormalizationRaised =>
          /\ query = UserInput
          /\ \A c \in Range(calls) :
                c.op \in {"rerank", "generate"} => c.arg = UserInput

\* the normalization raised and the call went on to an answer generated from
\* the user's own words
C14_Witness ==
    /\ pc = "done"
    /\ NormalizationRaised
    /\ Call("generate", UserInput, FALSE) \in Range(calls)
    /\ result = Returned(LlmAnswer)

\* the answer-generation chain was invoked and raised
GenerationRaised == \E c \in Range(calls) : c.op = "generate" /\ c.raised

\* final_module_cld, lines 1127-1142: the chain raised after a non-empty
\* retrieval and generate_answer returned the apology
CldGenerationFailureApology ==
    GenerationRaised =>
        /\ final_docs # <<>>
        /\ pc = "done"
        /\ result = Returned(ApologyAnswer)

\* rag_module_cl2, lines 592-604: the same of its generate_answer
Cl2GenerationFailureApology ==
    (\E c \in Range(cl2.calls) : c.op = "generate" /\ c.raised) =>
        /\ cl2.sorted_docs # <<>>
        /\ cl2.result = Returned(ApologyAnswer)

\* C15: when the answer-generation collaborator fails after a non-empty
\* retrieval, generate_answer returns the fixed apology string and does not
\* raise; in final_module_cld and in rag_module_cl2.
C15_GenerationFailureApology ==
    CldGenerationFailureApology /\ Cl2GenerationFailureApology

\* documents were retrieved, the generation raised, the apology came back
C15_Witness ==
    /\ pc = "done"
    /\ GenerationRaised
    /\ Len(final_docs) >= 2
    /\ result.answer = ApologyAnswer

\* the settings the specification calls valid
ValidSettings(c) ==
    /\ 0 <= c.generation_temperature /\ c.generation_temperature <= 20
    /\ 0 <= c.rerank_threshold /\ c.rerank_threshold <= 10
    /\ 0 <= c.hybrid_alpha /\ c.hybrid_alpha <= 10
    /\ c.search_multiplier >= 1
    /\ c.hybrid_method \in {"rrf", "weighted", "rank_sum"}

\* C16: constructing the configuration record with an invalid setting raises
\* and no pipeline is built from it: a generation temperature outside [0,2],
\* a rerank threshold outside [0,1], a weighted-fusion alpha outside [0,1], an
\* oversampling multiplier below 1 and a fusion method outside
\* {rrf, weighted, rank_sum} are each rejected at construction.
C16_InvalidSettingsRejected ==
    /\ pc \in {"configured", "built"} => ValidSettings(cfg)
    /\ pc = "rejected" => result = Raised

\* _hybrid_fusion returned after scoring and fusing its candidates
FusionRan == pc = "fused" /\ DOMAIN fused # {}

\* the fused score of the i-th returned document
FusedAt(i) == fused[DocKey(final_docs[i])]

\* C17: _hybrid_fusion returns the candidates by fused score descending: of
\* every two adjacent documents the first has the greater or equal fused
\* score, and each document's recorded hybrid rank is its 1-based position.
C17_FusedDescending ==
    FusionRan =>
        \A i \in DOMAIN final_docs :
            /\ final_docs[i].hybrid_rank = i
            /\ i < Len(final_docs) => FGe(FusedAt(i), FusedAt(i + 1))

\* three candidates fused, the best dense hit not first, scores strictly
\* falling
C17_Witness ==
    /\ FusionRan
    /\ Len(final_docs) = 3
    /\ final_docs[1].dense_rank # 1
    /\ ~FGe(FusedAt(2), FusedAt(1))
    /\ ~FGe(FusedAt(3), FusedAt(2))

\* C18: two candidates with equal fused scores are returned in their original
\* input order (stable sort), so two runs of _hybrid_fusion on identical
\* inputs return the identical order.
C18_TiesInInputOrder ==
    FusionRan =>
        \A i, j \in DOMAIN final_docs :
            (i < j /\ FEq(FusedAt(i), FusedAt(j))) =>
                PosOf(DedupeDocs(docs_law), DocKey(final_docs[i]))
                    < PosOf(DedupeDocs(docs_law), DocKey(final_docs[j]))

\* the ids ranked on both sides
RankedOnBoth == (DOMAIN dense_ranks) \cap (DOMAIN sparse_ranks)

\* C19: reciprocal rank fusion with equal dense and sparse weights is
\* symmetric in the two rankings: a document with dense rank r1 and sparse
\* rank r2 and a document with dense rank r2 and sparse rank r1 get identical
\* fused scores.
C19_RrfSymmetric ==
    (pc = "rrf_done" /\ cfg.hybrid_dense_weight = cfg.hybrid_sparse_weight) =>
        \A a, b \in RankedOnBoth :
            (dense_ranks[a] = sparse_ranks[b] /\ sparse_ranks[a] = dense_ranks[b])
                => fused[a] = fused[b]

\* dense {A:1, B:2} and sparse {A:2, B:1} fused with equal weights
C19_Witness ==
    /\ pc = "rrf_done"
    /\ cfg.hybrid_dense_weight = cfg.hybrid_sparse_weight
    /\ DOMAIN dense_ranks = {"A", "B"} /\ DOMAIN sparse_ranks = {"A", "B"}
    /\ dense_ranks["A"] = 1 /\ dense_ranks["B"] = 2
    /\ sparse_ranks["A"] = 2 /\ sparse_ranks["B"] = 1
    /\ fused["A"] = fused["B"]
    /\ fused["A"] # FZero

\* C20: in reciprocal rank fusion a document present in only one rank map
\* scores exactly that side's term w/(k + rank), the missing side adding 0 and
\* no penalty rank standing in for it, and every document of either map is in
\* the result.
C20_RrfMissingSideZero ==
    pc = "rrf_done" =>
        /\ DOMAIN fused = (DOMAIN dense_ranks) \cup (DOMAIN sparse_ranks)
        /\ \A id \in (DOMAIN dense_ranks) \ (DOMAIN sparse_ranks) :
              fused[id] = F(cfg.hybrid_dense_weight, 10 * (cfg.rrf_k + dense_ranks[id]))
        /\ \A id \in (DOMAIN sparse_ranks) \ (DOMAIN dense_ranks) :
              fused[id] = F(cfg.hybrid_sparse_weight, 10 * (cfg.rrf_k + sparse_ranks[id]))

\* A ranked only by the dense side, B only by the sparse side, C by both
C20_Witness ==
    /\ pc = "rrf_done"
    /\ DOMAIN dense_ranks = {"A", "C"} /\ DOMAIN sparse_ranks = {"B", "C"}
    /\ DOMAIN fused = {"A", "B", "C"}
    /\ fused["A"] = F(cfg.hybrid_dense_weight, 10 * (cfg.rrf_k + dense_ranks["A"]))
    /\ fused["B"] = F(cfg.hybrid_sparse_weight, 10 * (cfg.rrf_k + sparse_ranks["B"]))

\* C21: rank_sum over a single distinct document returns w_dense + w_sparse
\* for that document, whatever rank it carries in the dense or the sparse map.
C21_RankSumSingleDocument ==
    (pc = "rank_sum_done"
        /\ Cardinality((DOMAIN dense_ranks) \cup (DOMAIN sparse_ranks)) = 1)
    => /\ DOMAIN fused = (DOMAIN dense_ranks) \cup (DOMAIN sparse_ranks)
       /\ \A id \in DOMAIN fused :
            FEq(fused[id], F(cfg.hybrid_dense_weight + cfg.hybrid_sparse_weight, 10))

\* a call over the one document A, ranked 3 on the dense side and 2 on the
\* sparse side, has returned
C21_Witness ==
    /\ pc = "rank_sum_done"
    /\ DOMAIN dense_ranks = {"A"} /\ DOMAIN sparse_ranks = {"A"}
    /\ dense_ranks["A"] = 3 /\ sparse_ranks["A"] = 2
    /\ cfg.hybrid_dense_weight = HybridDenseWeightTenths
    /\ cfg.hybrid_sparse_weight = HybridSparseWeightTenths
    /\ DOMAIN fused = {"A"}

\* the capping call has returned
Capped == entry = "_cap_for_rerank" /\ pc # "cap"

\* C22: _cap_for_rerank returns at most rerank_max_documents documents: the
\* deduplicated statutes, then the deduplicated regulations, cut to the budget
\* when they alone reach it, then the first (budget - their count)
\* deduplicated case-law candidates; no case-law candidate is included while
\* a statute or a regulation is left out.
C22_CapKeepsStatutesFirst ==
    Capped =>
        LET base == DedupeDocs(docs_law) \o DedupeDocs(docs_rule)
            case == DedupeDocs(docs_case_chunks)
            budget == cfg.rerank_max_documents
        IN /\ Len(combined) <= budget
           /\ Len(base) >= budget => combined = SubSeq(base, 1, budget)
           /\ Len(base) < budget =>
                \E n \in 0..Len(case) :
                    /\ n = Min(budget - Len(base), Len(case))
                    /\ combined = base \o SubSeq(case, 1, n)
           /\ (\E i \in DOMAIN combined : combined[i].source_index = "case")
                => \A j \in DOMAIN base : \E i \in DOMAIN combined : combined[i] = base[j]

\* a budget of three: the repeated statute is dropped, the statute and the
\* regulation are kept, and only the first of two case-law candidates fits
C22_Witness ==
    /\ Capped
    /\ cfg.rerank_max_documents = 3
    /\ Len(docs_law) = 2 /\ Len(DedupeDocs(docs_law)) = 1
    /\ Len(docs_rule) = 1
    /\ Len(DedupeDocs(docs_case_chunks)) = 2
    /\ Len(combined) = 3
    /\ combined[3] = docs_case_chunks[1]

StageOf(op) ==
    CASE op = "normalize" -> 1
      [] op = "search" -> 2
      [] op = "rerank" -> 3
      [] op = "fetch" -> 4
      [] OTHER -> 5

CallsOf(op) == { i \in DOMAIN calls : calls[i].op = op }

\* C24: within one generate_answer call the collaborator calls come in a
\* fixed sequence: the normalization call (none when skip_normalization is
\* true) before every dense search; the dense searches, statutes, regulations,
\* case law, before the rerank call; at most one rerank call; every case
\* full-text fetch after the rerank call; the generation call last, and only
\* after the retrieval returned documents.
C24_CallsInStatedOrder ==
    entry = "generate_answer" =>
        /\ \A i, j \in DOMAIN calls :
              i < j => StageOf(calls[i].op) <= StageOf(calls[j].op)
        /\ Cardinality(CallsOf("normalize")) <= 1
        /\ Cardinality(CallsOf("rerank")) <= 1
        /\ Cardinality(CallsOf("generate")) <= 1
        /\ skip_normalization => CallsOf("normalize") = {}
        /\ (~skip_normalization /\ CallsOf("search") # {}) => CallsOf("normalize") # {}
        /\ (CallsOf("rerank") # {} \/ CallsOf("fetch") # {}) =>
              LET searches == SelectSeq(calls, LAMBDA c : c.op = "search")
              IN /\ [i \in DOMAIN searches |-> searches[i].arg] = <<"law", "rule", "case">>
                 /\ \A i \in DOMAIN searches : ~searches[i].raised
        /\ CallsOf("generate") # {} =>
              /\ final_docs # <<>>
              /\ calls[Len(calls)].op = "generate"


\* which stored document a returned document is: its metadata as the index
\* holds it, whatever text it now carries
Stored(d) == [Plain(d) EXCEPT !.page_content = <<>>]
StoredDocs(docs) == [i \in DOMAIN docs |-> Stored(docs[i])]

\* C25: with fusion disabled, reranking enabled, the same k values, threshold
\* and collaborator responses, triple_hybrid_retrieval of rag_module_cl2
\* returns, and returns the documents final_module_cld's call returned, in the
\* same order.
C25_VariantsReturnTheSame ==
    pc \in {"cl2_returned", "cl2_raised"}
        => /\ pc = "cl2_returned"
           /\ StoredDocs(cl2.sorted_docs) = StoredDocs(final_docs)


\* the documents of a rerank response that score at or above the threshold,
\* in the order of the response
AtOrAbove(docs, response, threshold) ==
    LET kept == SelectSeq(response, LAMBDA r : r.s >= threshold)
    IN [x \in DOMAIN kept |-> docs[kept[x].i + 1]]

\* final_module_cld, lines 976-982: once the filter has run on a ranking in
\* which some score reaches the threshold, the pairs kept are those at or
\* above it
CldKeepsAtOrAbove ==
    (/\ pc \in {"expand", "returned", "cl2_expand", "cl2_sort", "cl2_returned", "cl2_raised"}
     /\ ranked # NoRanking
     /\ \E x \in DOMAIN ranked : ranked[x].s >= cfg.rerank_threshold)
        => filtered = SelectSeq(ranked, LAMBDA r : r.s >= cfg.rerank_threshold)

\* rag_module_cl2, lines 481-497: the same of its selected documents
Cl2KeepsAtOrAbove ==
    (/\ pc \in {"cl2_sort", "cl2_returned", "cl2_raised"}
     /\ cl2.rerank_results # NoRanking
     /\ \E x \in DOMAIN cl2.rerank_results :
            cl2.rerank_results[x].s >= cfg.rerank_threshold)
        => cl2.selected_docs =
              AtOrAbove(cl2.combined_docs, cl2.rerank_results, cfg.rerank_threshold)

\* C26: the rerank filter keeps documents at or above the threshold: a
\* reranked document whose score equals rerank_threshold is kept, and when at
\* least one document reaches the threshold every document scoring strictly
\* below it is dropped; in final_module_cld and in rag_module_cl2.
C26_KeepsAtOrAboveThreshold == CldKeepsAtOrAbove /\ Cl2KeepsAtOrAbove


\* the metadata of a document
Metadata(d) == [d EXCEPT !.page_content = <<>>]

\* final_module_cld, lines 1011-1029: the candidates the expansion reads are
\* as the search left them, without the expanded flag; a replacement carries
\* its candidate's metadata plus expanded = true
CldExpansionLeavesCandidates ==
    /\ \A i \in DOMAIN chosen_cases :
          /\ ~chosen_cases[i].expanded
          /\ Plain(chosen_cases[i]) \in corpus.case
    /\ \A i \in DOMAIN selected_docs : ~selected_docs[i].expanded
    /\ \A i \in DOMAIN expanded_cases :
          expanded_cases[i] # chosen_cases[i] =>
              Metadata(expanded_cases[i])
                  = [Metadata(chosen_cases[i]) EXCEPT !.expanded = TRUE]

\* rag_module_cl2, lines 446-463: the same of docs_case_initial and
\* docs_case_expanded
Cl2ExpansionLeavesCandidates ==
    /\ \A i \in DOMAIN cl2.docs_case_initial :
          cl2.docs_case_initial[i] \in corpus.case
    /\ \A i \in DOMAIN cl2.docs_case_expanded :
          \E d \in corpus.case :
              Metadata(cl2.docs_case_expanded[i]) = [Metadata(d) EXCEPT !.expanded = TRUE]

\* C27: case expansion does not modify the candidate documents it reads: a
\* replacement is a new document whose metadata is the candidate's plus
\* expanded = true, and the candidate keeps its content and metadata, without
\* the expanded flag; in final_module_cld and in rag_module_cl2.
C27_ExpansionLeavesCandidates ==
    CldExpansionLeavesCandidates /\ Cl2ExpansionLeavesCandidates


\* a candidate apart from the rank fusion writes into it
Unranked(d) == [d EXCEPT !.hybrid_rank = NoInt]

\* how often the candidate d stands in the list
TimesIn(docs, d) == Cardinality({ j \in DOMAIN docs : Unranked(docs[j]) = Unranked(d) })

\* C28: _hybrid_fusion, fusing with any of the methods rrf, weighted and
\* rank_sum, returns a permutation of its deduplicated input: every
\* deduplicated candidate stands exactly once in the output and no other
\* document does.
C28_FusionPermutes ==
    (pc = "fused" /\ cfg.enable_hybrid) =>
        LET dd == DedupeDocs(docs_law) IN
        /\ Len(final_docs) = Len(dd)
        /\ \A i \in DOMAIN dd : TimesIn(final_docs, dd[i]) = 1
        /\ \A j \in DOMAIN final_docs : TimesIn(dd, final_docs[j]) = 1

\* the weighted sum fused three candidates of which two share a key: the two left by
\* the deduplication are returned, the second dense hit first
C28_Witness ==
    /\ pc = "fused"
    /\ cfg.enable_hybrid /\ cfg.hybrid_method = "weighted"
    /\ Len(docs_law) = 3
    /\ Len(DedupeDocs(docs_law)) = 2
    /\ Len(final_docs) = 2
    /\ Unranked(final_docs[1]) = Unranked(DedupeDocs(docs_law)[2])
    /\ Unranked(final_docs[2]) = Unranked(DedupeDocs(docs_law)[1])


\* C29: under the rank_sum method every fused score _hybrid_fusion assigns
\* lies in [0, w_dense + w_sparse]: every dense and sparse rank handed to the
\* unit conversion lies in 1..n, n the number of deduplicated candidates
\* fused, whatever list the dense search returned.
C29_RankSumScoresInRange ==
    (FusionRan /\ cfg.hybrid_method = "rank_sum") =>
        LET n == Cardinality(DOMAIN fused) IN
        \A id \in DOMAIN fused :
            /\ dense_ranks[id] \in 1..n
            /\ sparse_ranks[id] \in 1..n
            /\ FGe(fused[id], FZero)
            /\ FGe(F(HybridDenseWeightTenths + HybridSparseWeightTenths, 10), fused[id])


\* the full-text fetches of the call, in the order made
Fetches == SelectSeq(calls, LAMBDA c : c.op = "fetch")

\* C30: one triple_hybrid_retrieval call issues at most top_n case full-text
\* fetches, top_n being case_expand_top_n when set and k_case otherwise, for
\* every top_n >= 0, and never fetches the same case number twice.
C30_AtMostTopNFetches ==
    /\ Len(Fetches) <= ExpandTopN
    /\ \A i, j \in DOMAIN Fetches : i # j => Fetches[i].arg # Fetches[j].arg

====
